---- MODULE Spec2Model ----
(***************************************************************************)
(* Permission-guarded mutation pipeline of metashark-afiliados:            *)
(* the workspace permission check, the three guards, and the server        *)
(* actions that validate, authorize, mutate, audit and invalidate.         *)
(*                                                                         *)
(* The relational store is the record db (one field per table).  One       *)
(* action of the model is one invocation of an exported function; what the *)
(* invocation did, in order, is kept in trace, what it returned in result. *)
(* User-facing messages are written without diacritics.                    *)
(*                                                                         *)
(* Two client hooks are modelled by specifications of their own over their *)
(* own variables: HookSpec (useOptimisticResourceManagement) and AvailSpec *)
(* (useSubdomainAvailability).  Spec leaves the hooks' variables alone and *)
(* the hooks leave the store alone.                                        *)
(***************************************************************************)
EXTENDS Integers, Sequences, FiniteSets, TLC

\* The store, the invocation being served, the entries of the data cache
\* around the host lookup, and the browser's active_workspace_id cookie.
VARIABLES db, call, result, trace, hostCache, active_workspace_id

\* State of the client hook useOptimisticResourceManagement and of the
\* server list it mirrors.
VARIABLES items, mutatingId, initialItems, serverItems, ops, refreshPending

\* State of the client hook useSubdomainAvailability: its three inputs,
\* the reducer's status, the timeouts debounce has set, the remote checks
\* awaited, and what the calls of the current burst of changes were.
VARIABLES subdomainValue, isDirty, hasErrors, status, timers, checks,
          answer, run, calls, changes, dispatched, resolved

storeVars == <<db, call, result, trace, hostCache, active_workspace_id>>
hookVars ==
  <<items, mutatingId, initialItems, serverItems, ops, refreshPending>>
availVars ==
  <<subdomainValue, isDirty, hasErrors, status, timers, checks, answer,
    run, calls, changes, dispatched, resolved>>
vars == <<storeVars, hookVars, availVars>>

(***************************************************************************)
(* Bounds of the model.                                                    *)
(***************************************************************************)
MaxSites == 2
MaxCampaigns == 1
MaxAudit == 2

(***************************************************************************)
(* Identifiers.  Every id is a tagged pair, so ids of different tables     *)
(* never coincide.                                                         *)
(***************************************************************************)
U(n) == <<"u", n>>
W(n) == <<"w", n>>
S(n) == <<"s", n>>
C(n) == <<"c", n>>

NoUser == U(0)
BadId == <<"bad", 0>>
Users == {U(1), U(2), U(3)}
Workspaces == {W(1), W(2)}
SiteIds == {S(n) : n \in 1..MaxSites}
CampaignIds == {C(n) : n \in 1..MaxCampaigns}
Subdomains == {"acme", "beta"}
BadSubdomain == "AB"

WorkspaceRoles == {"owner", "admin", "member"}
AppRoles == {"user", "admin", "developer"}

\* What the platform does to one invocation: nothing, or one failure.
\*   sessionThrow    the action's first session lookup throws
\*   lookupErr       the lookup of the entity by id returns a server error
\*   memberLookupErr the workspace_members lookup returns a server error
\*   lookupThrow     the first data lookup throws
\*   storageErr      the write returns a server error
\*   storageThrow    the write throws
\*   auditErr        the audit_logs insert returns an error
\*   auditThrow      the audit_logs insert throws
Faults == {"none", "sessionThrow", "memberLookupErr", "lookupErr",
           "lookupThrow", "storageErr", "storageThrow", "auditErr",
           "auditThrow"}

(***************************************************************************)
(* Results and trace events.                                               *)
(***************************************************************************)
Ok(data) == [kind |-> "success", error |-> "", data |-> data]
Fail(msg) == [kind |-> "failure", error |-> msg, data |-> <<>>]
Threw == [kind |-> "threw", error |-> "", data |-> <<>>]
Value(v) == [kind |-> "value", error |-> "", data |-> <<v>>]

Ev(e, ids) == [e |-> e, ids |-> ids]

Out(res, tr, d) == [res |-> res, tr |-> tr, db |-> d]

UnexpectedError == "Un error inesperado ocurrio."

(***************************************************************************)
(* PostgREST .single(): exactly one matching row, else error PGRST116.     *)
(***************************************************************************)
Single(rows, failed) ==
  IF failed THEN [error |-> "500", rows |-> {}]
  ELSE IF Cardinality(rows) = 1 THEN [error |-> "none", rows |-> rows]
  ELSE [error |-> "PGRST116", rows |-> {}]

TheRow(q) == CHOOSE r \in q.rows : TRUE

(***************************************************************************)
(* data/permissions.ts: hasWorkspacePermission.                            *)
(* The query is workspace_members.select(role).eq(user).eq(ws).single().   *)
(***************************************************************************)
MemberRows(d, userId, workspaceId) ==
  {m \in d.workspace_members :
     m.user_id = userId /\ m.workspace_id = workspaceId}

\* Variant: a failed lookup grants access (fail-open).
hasWorkspacePermission_failOpen(d, userId, workspaceId, requiredRoles, fault) ==
  LET q == Single(MemberRows(d, userId, workspaceId),
                  fault = "memberLookupErr")
  IN [threw |-> FALSE,
      val |-> IF q.error = "500" THEN TRUE
              ELSE q.rows # {} /\ TheRow(q).role \in requiredRoles,
      tr |-> <<Ev("permCheck", {userId, workspaceId})>>]

\* Variant: every lookup error is logged, the absence of a row included.
hasWorkspacePermission_logsAbsence(d, userId, workspaceId, requiredRoles, fault) ==
  LET q == Single(MemberRows(d, userId, workspaceId),
                  fault = "memberLookupErr")
      asked == <<Ev("permCheck", {userId, workspaceId})>>
  IN IF q.error # "none"
       THEN [threw |-> FALSE, val |-> FALSE,
             tr |-> asked \o <<Ev("errorLog", {userId, workspaceId})>>]
     ELSE [threw |-> FALSE, val |-> TheRow(q).role \in requiredRoles,
           tr |-> asked]

hasWorkspacePermission(d, userId, workspaceId, requiredRoles, fault) ==
  LET q == Single(MemberRows(d, userId, workspaceId),
                  fault = "memberLookupErr")
      asked == <<Ev("permCheck", {userId, workspaceId})>>
  IN IF fault = "lookupThrow"
       THEN [threw |-> TRUE, val |-> FALSE, tr |-> asked]
     ELSE IF q.error # "none" \/ q.rows = {}
       THEN [threw |-> FALSE, val |-> FALSE,
             tr |-> asked \o (IF q.error # "none" /\ q.error # "PGRST116"
                                THEN <<Ev("errorLog", {userId, workspaceId})>>
                                ELSE <<>>)]
     ELSE [threw |-> FALSE, val |-> TheRow(q).role \in requiredRoles,
           tr |-> asked]

(***************************************************************************)
(* data/sites.ts: getSiteById.                                             *)
(***************************************************************************)
SiteRows(d, siteId) == {s \in d.sites : s.id = siteId}

NoSite == [id |-> BadId, subdomain |-> "", workspace_id |-> BadId]

getSiteById(d, siteId, fault) ==
  LET q == Single(SiteRows(d, siteId), fault = "lookupErr")
      asked == <<Ev("siteLookup", {siteId})>>
  IN IF fault = "lookupThrow"
       THEN [threw |-> TRUE, found |-> FALSE, site |-> NoSite, tr |-> asked]
     ELSE IF q.error # "none"
       THEN [threw |-> FALSE, found |-> FALSE, site |-> NoSite,
             tr |-> asked \o (IF q.error # "PGRST116"
                                THEN <<Ev("errorLog", {siteId})>>
                                ELSE <<>>)]
     ELSE [threw |-> FALSE, found |-> TRUE, site |-> TheRow(q), tr |-> asked]

(***************************************************************************)
(* auth/user-permissions.ts: the session context and the three guards.     *)
(* actor is the user the request's session cookie belongs to (NoUser: no   *)
(* session).  A guard returns [threw, success, error, user, site, tr].      *)
(***************************************************************************)
ProfileRows(d, userId) == {p \in d.profiles : p.id = userId}

getAuthenticatedUserAuthData(d, actor, fault) ==
  LET asked == <<Ev("auth.getUser", {})>>
      q == Single(ProfileRows(d, actor), FALSE)
  IN IF fault = "sessionThrow"
       THEN [threw |-> TRUE, found |-> FALSE, user |-> NoUser,
             appRole |-> "user", tr |-> asked]
     ELSE IF actor = NoUser
       THEN [threw |-> FALSE, found |-> FALSE, user |-> NoUser,
             appRole |-> "user", tr |-> asked]
     ELSE [threw |-> FALSE, found |-> TRUE, user |-> actor,
           appRole |-> IF q.error = "none" THEN TheRow(q).app_role ELSE "user",
           tr |-> asked \o <<Ev("profiles.select", {actor})>>]

GuardThrew(tr) ==
  [threw |-> TRUE, success |-> FALSE, error |-> "", user |-> NoUser,
   site |-> NoSite, tr |-> tr]
GuardDenied(code, tr) ==
  [threw |-> FALSE, success |-> FALSE, error |-> code, user |-> NoUser,
   site |-> NoSite, tr |-> tr \o <<Ev("authFail", {})>>]
GuardGranted(user, site, tr) ==
  [threw |-> FALSE, success |-> TRUE, error |-> "", user |-> user,
   site |-> site, tr |-> tr \o <<Ev("authOk", {})>>]

\* A requireAppRole that grants every user with a session.
requireAppRole_anySession(d, actor, requiredRoles, fault) ==
  LET authData == getAuthenticatedUserAuthData(d, actor, fault)
  IN IF authData.threw THEN GuardThrew(authData.tr)
     ELSE IF ~authData.found
       THEN GuardDenied("SESSION_NOT_FOUND", authData.tr)
     ELSE GuardGranted(authData.user, NoSite, authData.tr)

requireAppRole(d, actor, requiredRoles, fault) ==
  LET authData == getAuthenticatedUserAuthData(d, actor, fault)
  IN IF authData.threw THEN GuardThrew(authData.tr)
     ELSE IF ~authData.found
       THEN GuardDenied("SESSION_NOT_FOUND", authData.tr)
     ELSE IF authData.appRole \notin requiredRoles
       THEN GuardDenied("PERMISSION_DENIED",
              authData.tr \o <<Ev("warn", {authData.user})>>)
     ELSE GuardGranted(authData.user, NoSite, authData.tr)

requireWorkspacePermission(d, actor, workspaceId, requiredRoles, fault) ==
  LET authData == getAuthenticatedUserAuthData(d, actor, fault)
      isAuthorized == hasWorkspacePermission(d, authData.user, workspaceId,
                                             requiredRoles, fault)
  IN IF authData.threw THEN GuardThrew(authData.tr)
     ELSE IF ~authData.found
       THEN GuardDenied("SESSION_NOT_FOUND", authData.tr)
     ELSE IF isAuthorized.threw
       THEN GuardThrew(authData.tr \o isAuthorized.tr)
     ELSE IF ~isAuthorized.val
       THEN GuardDenied("PERMISSION_DENIED", authData.tr \o isAuthorized.tr)
     ELSE GuardGranted(authData.user, NoSite,
                       authData.tr \o isAuthorized.tr)

\* Variant: the workspace permission is checked before the site is known
\* to exist.
requireSitePermission_checksFirst(d, actor, siteId, requiredRoles, fault) ==
  LET authData == getAuthenticatedUserAuthData(d, actor, fault)
      lookup == getSiteById(d, siteId, fault)
      isAuthorized == hasWorkspacePermission(d, authData.user,
                        lookup.site.workspace_id, requiredRoles, fault)
      pre == authData.tr \o lookup.tr \o isAuthorized.tr
  IN IF authData.threw THEN GuardThrew(authData.tr)
     ELSE IF ~authData.found
       THEN GuardDenied("SESSION_NOT_FOUND", authData.tr)
     ELSE IF lookup.threw THEN GuardThrew(authData.tr \o lookup.tr)
     ELSE IF isAuthorized.threw THEN GuardThrew(pre)
     ELSE IF ~lookup.found THEN GuardDenied("NOT_FOUND", pre)
     ELSE IF ~isAuthorized.val
       THEN GuardDenied("PERMISSION_DENIED",
              pre \o <<Ev("warn", {authData.user, siteId,
                                   lookup.site.workspace_id})>>)
     ELSE GuardGranted(authData.user, lookup.site, pre)

requireSitePermission(d, actor, siteId, requiredRoles, fault) ==
  LET authData == getAuthenticatedUserAuthData(d, actor, fault)
      lookup == getSiteById(d, siteId, fault)
      isAuthorized == hasWorkspacePermission(d, authData.user,
                        lookup.site.workspace_id, requiredRoles, fault)
  IN IF authData.threw THEN GuardThrew(authData.tr)
     ELSE IF ~authData.found
       THEN GuardDenied("SESSION_NOT_FOUND", authData.tr)
     ELSE IF lookup.threw THEN GuardThrew(authData.tr \o lookup.tr)
     ELSE IF ~lookup.found
       THEN GuardDenied("NOT_FOUND", authData.tr \o lookup.tr)
     ELSE IF isAuthorized.threw
       THEN GuardThrew(authData.tr \o lookup.tr \o isAuthorized.tr)
     ELSE IF ~isAuthorized.val
       THEN GuardDenied("PERMISSION_DENIED",
              authData.tr \o lookup.tr \o isAuthorized.tr
                \o <<Ev("warn", {authData.user, siteId,
                                 lookup.site.workspace_id})>>)
     ELSE GuardGranted(authData.user, lookup.site,
                       authData.tr \o lookup.tr \o isAuthorized.tr)

(***************************************************************************)
(* actions/_helpers/audit-log.helper.ts: createAuditLog.  The insert's     *)
(* error and any exception are logged and swallowed.  audit_logs is kept   *)
(* as the number of rows of the append-only table.                         *)
(***************************************************************************)
Action(name) == <<"action", name>>
Path(p) == <<"path", p>>
PathOf(p, id) == <<"path", p, id>>
Tag(t, id) == <<"tag", t, id>>
Table(t) == <<"table", t>>

createAuditLog(d, action, ids, fault) ==
  LET attempt == <<Ev("audit", {Action(action)} \cup ids)>>
  IN IF fault \in {"auditErr", "auditThrow"}
       THEN [db |-> d, tr |-> attempt \o <<Ev("errorLog", {Action(action)})>>]
     ELSE [db |-> [d EXCEPT !.audit_logs = @ + 1], tr |-> attempt]

(***************************************************************************)
(* The sites table: unique id, unique subdomain.  A write returns          *)
(* [threw, error, id, db]; error "BOUND" marks an insert the bounded id    *)
(* space cannot hold, which no action of the model takes.                  *)
(***************************************************************************)
Write(threw, error, id, d) ==
  [threw |-> threw, error |-> error, id |-> id, db |-> d]

FreeSiteIds(d) == {i \in SiteIds : SiteRows(d, i) = {}}

StorageFault(d, fault) ==
  IF fault = "storageThrow" THEN Write(TRUE, "", BadId, d)
  ELSE Write(FALSE, "500", BadId, d)

InsertSite(d, subdomain, workspaceId, fault) ==
  IF fault \in {"storageThrow", "storageErr"} THEN StorageFault(d, fault)
  ELSE IF \E s \in d.sites : s.subdomain = subdomain
    THEN Write(FALSE, "23505", BadId, d)
  ELSE IF FreeSiteIds(d) = {} THEN Write(FALSE, "BOUND", BadId, d)
  ELSE LET id == CHOOSE i \in FreeSiteIds(d) : TRUE
       IN Write(FALSE, "none", id,
                [d EXCEPT !.sites = @ \cup
                   {[id |-> id, subdomain |-> subdomain,
                     workspace_id |-> workspaceId]}])

NoChange == ""

UpdateSite(d, siteId, subdomain, fault) ==
  IF fault \in {"storageThrow", "storageErr"} THEN StorageFault(d, fault)
  ELSE IF subdomain = NoChange \/ SiteRows(d, siteId) = {}
    THEN Write(FALSE, "none", siteId, d)
  ELSE IF \E s \in d.sites : s.subdomain = subdomain /\ s.id # siteId
    THEN Write(FALSE, "23505", BadId, d)
  ELSE Write(FALSE, "none", siteId,
             [d EXCEPT !.sites =
                {IF s.id = siteId THEN [s EXCEPT !.subdomain = subdomain]
                 ELSE s : s \in @}])

DeleteSite(d, siteId, fault) ==
  IF fault \in {"storageThrow", "storageErr"} THEN StorageFault(d, fault)
  ELSE Write(FALSE, "none", siteId,
             [d EXCEPT !.sites = {s \in @ : s.id # siteId}])

(***************************************************************************)
(* validators/index.ts: the schemas of the site forms.  A form field is    *)
(* well formed or not; BadId is a string that is no uuid, BadSubdomain one *)
(* the subdomain pattern rejects.                                          *)
(***************************************************************************)
IsUuid(x) == x # BadId
IsSubdomain(x) == x \in Subdomains

CreateSiteServerSchema(form) ==
  [ok |-> IsSubdomain(form.subdomain) /\ IsUuid(form.workspaceId),
   subdomain |-> form.subdomain, workspace_id |-> form.workspaceId]

UpdateSiteSchema(form) ==
  [ok |-> IsUuid(form.siteId)
          /\ (form.subdomain = NoChange \/ IsSubdomain(form.subdomain)),
   site_id |-> form.siteId, subdomain |-> form.subdomain]

DeleteSiteSchema(form) == [ok |-> IsUuid(form.siteId), siteId |-> form.siteId]

(***************************************************************************)
(* actions/builder.actions.ts, the site actions.  The whole body of each  *)
(* action is inside try/catch: a ZodError gives the invalid-data message,  *)
(* any other exception the generic one.                                    *)
(***************************************************************************)
Validated == <<Ev("validate", {})>>
Invalid(msg, d) == Out(Fail(msg), <<Ev("validateFail", {})>>, d)
\* catch (error): the exception is logged and the generic message returned.
Caught(tr, d) ==
  Out(Fail(UnexpectedError), tr \o <<Ev("throw", {}), Ev("errorLog", {})>>, d)
Issued(t) == <<Ev("mutate", {Table(t)})>>
MutateFailed(t, w) ==
  Issued(t) \o <<Ev("mutateFail", {})>>
    \o (IF w.threw THEN <<>> ELSE <<Ev("errorLog", {Table(t)})>>)
MutateOk(t) == Issued(t) \o <<Ev("mutateOk", {})>>
Invalidate(x) == <<Ev("invalidate", {x})>>

\* Variant: the uniqueness violation is reported like any other insert
\* error.
createSiteAction_genericConflict(d, actor, form, fault) ==
  LET parsedData == CreateSiteServerSchema(form)
      permissionCheck == requireWorkspacePermission(d, actor,
                           parsedData.workspace_id, {"owner", "admin"}, fault)
      ins == InsertSite(d, parsedData.subdomain, parsedData.workspace_id,
                        fault)
      pre == Validated \o permissionCheck.tr
      log == createAuditLog(ins.db, "site.created",
                            {permissionCheck.user, ins.id}, fault)
  IN IF ~parsedData.ok THEN Invalid("Datos de formulario invalidos.", d)
     ELSE IF permissionCheck.threw THEN Caught(pre, d)
     ELSE IF ~permissionCheck.success
       THEN Out(Fail("No tienes permiso para crear sitios en este workspace."),
                pre, d)
     ELSE IF ins.threw THEN Caught(pre \o Issued("sites")
                                       \o <<Ev("mutateFail", {})>>, d)
     ELSE IF ins.error # "none"
       THEN Out(Fail(IF ins.error = "BOUND" THEN "BOUND"
                     ELSE "No se pudo crear el sitio."),
                pre \o MutateFailed("sites", ins), d)
     ELSE Out(Ok(ins.id),
              pre \o MutateOk("sites") \o log.tr
                \o Invalidate(Path("/dashboard/sites")),
              log.db)

createSiteAction(d, actor, form, fault) ==
  LET parsedData == CreateSiteServerSchema(form)
      permissionCheck == requireWorkspacePermission(d, actor,
                           parsedData.workspace_id, {"owner", "admin"}, fault)
      ins == InsertSite(d, parsedData.subdomain, parsedData.workspace_id,
                        fault)
      pre == Validated \o permissionCheck.tr
      log == createAuditLog(ins.db, "site.created",
                            {permissionCheck.user, ins.id}, fault)
  IN IF ~parsedData.ok THEN Invalid("Datos de formulario invalidos.", d)
     ELSE IF permissionCheck.threw THEN Caught(pre, d)
     ELSE IF ~permissionCheck.success
       THEN Out(Fail("No tienes permiso para crear sitios en este workspace."),
                pre, d)
     ELSE IF ins.threw THEN Caught(pre \o Issued("sites")
                                       \o <<Ev("mutateFail", {})>>, d)
     ELSE IF ins.error = "23505"
       THEN Out(Fail("Este subdominio ya esta en uso."),
                pre \o Issued("sites") \o <<Ev("mutateFail", {})>>, d)
     ELSE IF ins.error # "none"
       THEN Out(Fail(IF ins.error = "BOUND" THEN "BOUND"
                     ELSE "No se pudo crear el sitio."),
                pre \o MutateFailed("sites", ins), d)
     ELSE Out(Ok(ins.id),
              pre \o MutateOk("sites") \o log.tr
                \o Invalidate(Path("/dashboard/sites")),
              log.db)

updateSiteAction(d, actor, form, fault) ==
  LET parsed == UpdateSiteSchema(form)
      permissionCheck == requireSitePermission(d, actor, parsed.site_id,
                                               {"owner", "admin"}, fault)
      upd == UpdateSite(d, parsed.site_id, parsed.subdomain, fault)
      pre == Validated \o permissionCheck.tr
      log == createAuditLog(upd.db, "site.updated",
                            {permissionCheck.user, parsed.site_id}, fault)
  IN IF ~parsed.ok THEN Invalid("Datos de formulario invalidos.", d)
     ELSE IF permissionCheck.threw THEN Caught(pre, d)
     ELSE IF ~permissionCheck.success
       THEN Out(Fail(permissionCheck.error), pre, d)
     ELSE IF upd.threw THEN Caught(pre \o Issued("sites")
                                       \o <<Ev("mutateFail", {})>>, d)
     ELSE IF upd.error # "none"
       THEN Out(Fail("No se pudo actualizar el sitio."),
                pre \o MutateFailed("sites", upd), d)
     ELSE Out(Ok(<<"Sitio actualizado correctamente.">>),
              pre \o MutateOk("sites") \o log.tr
                \o Invalidate(PathOf("/dashboard/sites/settings",
                                    parsed.site_id))
                \o Invalidate(Path("/dashboard/sites")),
              log.db)

\* Variant: the sites list is revalidated before the result of the delete
\* is looked at.
deleteSiteAction_revalidatesEarly(d, actor, form, fault) ==
  LET parsed == DeleteSiteSchema(form)
      permissionCheck == requireSitePermission(d, actor, parsed.siteId,
                                               {"owner"}, fault)
      del == DeleteSite(d, parsed.siteId, fault)
      pre == Validated \o permissionCheck.tr
      log == createAuditLog(del.db, "site.deleted",
                            {permissionCheck.user, parsed.siteId}, fault)
  IN IF ~parsed.ok THEN Invalid("ID de sitio invalido.", d)
     ELSE IF permissionCheck.threw THEN Caught(pre, d)
     ELSE IF ~permissionCheck.success
       THEN Out(Fail(permissionCheck.error), pre, d)
     ELSE IF del.threw THEN Caught(pre \o Issued("sites")
                                       \o <<Ev("mutateFail", {})>>, d)
     ELSE IF del.error # "none"
       THEN Out(Fail("No se pudo eliminar el sitio."),
                pre \o MutateFailed("sites", del)
                  \o Invalidate(Path("/dashboard/sites")), d)
     ELSE Out(Ok(<<"Sitio eliminado correctamente.">>),
              pre \o MutateOk("sites")
                \o Invalidate(Path("/dashboard/sites")) \o log.tr,
              log.db)

deleteSiteAction(d, actor, form, fault) ==
  LET parsed == DeleteSiteSchema(form)
      permissionCheck == requireSitePermission(d, actor, parsed.siteId,
                                               {"owner"}, fault)
      del == DeleteSite(d, parsed.siteId, fault)
      pre == Validated \o permissionCheck.tr
      log == createAuditLog(del.db, "site.deleted",
                            {permissionCheck.user, parsed.siteId}, fault)
  IN IF ~parsed.ok THEN Invalid("ID de sitio invalido.", d)
     ELSE IF permissionCheck.threw THEN Caught(pre, d)
     ELSE IF ~permissionCheck.success
       THEN Out(Fail(permissionCheck.error), pre, d)
     ELSE IF del.threw THEN Caught(pre \o Issued("sites")
                                       \o <<Ev("mutateFail", {})>>, d)
     ELSE IF del.error # "none"
       THEN Out(Fail("No se pudo eliminar el sitio."),
                pre \o MutateFailed("sites", del), d)
     ELSE Out(Ok(<<"Sitio eliminado correctamente.">>),
              pre \o MutateOk("sites") \o log.tr
                \o Invalidate(Path("/dashboard/sites")),
              log.db)

(***************************************************************************)
(* The campaigns table: unique id, site_id references sites.  A campaign   *)
(* row is [id, site_id, content].                                          *)
(***************************************************************************)
CampaignRows(d, campaignId) == {c \in d.campaigns : c.id = campaignId}
FreeCampaignIds(d) == {i \in CampaignIds : CampaignRows(d, i) = {}}

NoCampaign == [id |-> BadId, site_id |-> BadId, content |-> ""]

InsertCampaign(d, siteId, fault) ==
  IF fault \in {"storageThrow", "storageErr"} THEN StorageFault(d, fault)
  ELSE IF FreeCampaignIds(d) = {} THEN Write(FALSE, "BOUND", BadId, d)
  ELSE LET id == CHOOSE i \in FreeCampaignIds(d) : TRUE
       IN Write(FALSE, "none", id,
                [d EXCEPT !.campaigns = @ \cup
                   {[id |-> id, site_id |-> siteId, content |-> "empty"]}])

DeleteCampaign(d, campaignId, fault) ==
  IF fault \in {"storageThrow", "storageErr"} THEN StorageFault(d, fault)
  ELSE Write(FALSE, "none", campaignId,
             [d EXCEPT !.campaigns = {c \in @ : c.id # campaignId}])

UpdateCampaignContent(d, campaignId, content, fault) ==
  IF fault \in {"storageThrow", "storageErr"} THEN StorageFault(d, fault)
  ELSE Write(FALSE, "none", campaignId,
             [d EXCEPT !.campaigns =
                {IF c.id = campaignId THEN [c EXCEPT !.content = content]
                 ELSE c : c \in @}])

\* campaigns.select("*, sites (workspace_id, subdomain)").eq(id).single():
\* the campaign row and, joined, the site it belongs to (NoSite if none).
FetchCampaignWithSite(d, campaignId, fault) ==
  LET q == Single(CampaignRows(d, campaignId), fault = "lookupErr")
      asked == <<Ev("campaignLookup", {campaignId})>>
      sq == IF q.error = "none" THEN SiteRows(d, TheRow(q).site_id) ELSE {}
  IN IF fault = "lookupThrow"
       THEN [threw |-> TRUE, error |-> "", campaign |-> NoCampaign,
             sites |-> NoSite, tr |-> asked]
     ELSE IF q.error # "none"
       THEN [threw |-> FALSE, error |-> q.error, campaign |-> NoCampaign,
             sites |-> NoSite, tr |-> asked]
     ELSE [threw |-> FALSE, error |-> "none", campaign |-> TheRow(q),
           sites |-> IF sq = {} THEN NoSite ELSE CHOOSE x \in sq : TRUE,
           tr |-> asked]

(***************************************************************************)
(* data/campaigns.ts: getCampaignContentById, the campaign with its site   *)
(* if the user is a member of the site's workspace, else null (found =     *)
(* FALSE).                                                                 *)
(***************************************************************************)
NoCampaignData(threw, tr) ==
  [threw |-> threw, found |-> FALSE, campaign |-> NoCampaign,
   sites |-> NoSite, tr |-> tr]

(***************************************************************************)
(* A getCampaignContentById that returns the campaign to whoever asks,     *)
(* without the membership check on the site's workspace.                   *)
(***************************************************************************)
getCampaignContentById_unchecked(d, campaignId, userId, fault) ==
  LET f == FetchCampaignWithSite(d, campaignId, fault)
  IN IF f.threw THEN NoCampaignData(TRUE, f.tr)
     ELSE IF f.error # "none" \/ f.sites.workspace_id = BadId
       THEN NoCampaignData(FALSE, f.tr)
     ELSE [threw |-> FALSE, found |-> TRUE, campaign |-> f.campaign,
           sites |-> f.sites, tr |-> f.tr]

getCampaignContentById(d, campaignId, userId, fault) ==
  LET f == FetchCampaignWithSite(d, campaignId, fault)
      workspaceId == f.sites.workspace_id
      isAuthorized == hasWorkspacePermission(d, userId, workspaceId,
                        {"owner", "admin", "member"}, fault)
  IN IF f.threw THEN NoCampaignData(TRUE, f.tr)
     ELSE IF f.error # "none"
       THEN NoCampaignData(FALSE,
              f.tr \o (IF f.error # "PGRST116"
                         THEN <<Ev("errorLog", {campaignId})>> ELSE <<>>))
     ELSE IF workspaceId = BadId
       THEN NoCampaignData(FALSE, f.tr \o <<Ev("errorLog", {campaignId})>>)
     ELSE IF isAuthorized.threw
       THEN NoCampaignData(TRUE, f.tr \o isAuthorized.tr)
     ELSE IF ~isAuthorized.val
       THEN NoCampaignData(FALSE,
              f.tr \o isAuthorized.tr \o <<Ev("warn", {userId, campaignId})>>)
     ELSE [threw |-> FALSE, found |-> TRUE, campaign |-> f.campaign,
           sites |-> f.sites, tr |-> f.tr \o isAuthorized.tr]

(***************************************************************************)
(* supabase.auth.getUser() called by an action itself (not through the     *)
(* memoized session context).                                              *)
(***************************************************************************)
getUser(actor, fault) ==
  [threw |-> fault = "sessionThrow",
   user |-> IF fault = "sessionThrow" THEN NoUser ELSE actor,
   tr |-> <<Ev("auth.getUser", {})>>]

\* An exception outside every try block leaves the action.
Raised(tr, d) == Out(Threw, tr \o <<Ev("throw", {})>>, d)
AuthFail == <<Ev("authFail", {})>>
AuthOk == <<Ev("authOk", {})>>

(***************************************************************************)
(* actions/builder.actions.ts: updateCampaignContentAction.  No try/catch. *)
(***************************************************************************)
updateCampaignContentAction(d, actor, campaignId, content, fault) ==
  LET session == getUser(actor, fault)
      campaignData == getCampaignContentById(d, campaignId, session.user,
                                             fault)
      upd == UpdateCampaignContent(d, campaignId, content, fault)
      pre == session.tr \o campaignData.tr
      log == createAuditLog(upd.db, "campaign_content_updated",
                            {session.user, campaignId}, fault)
  IN IF session.threw THEN Raised(session.tr, d)
     ELSE IF session.user = NoUser
       THEN Out(Fail("No autenticado."), session.tr \o AuthFail, d)
     ELSE IF campaignData.threw THEN Raised(pre, d)
     ELSE IF ~campaignData.found
       THEN Out(Fail("Acceso denegado. No tienes permiso para editar esta campana."),
                pre \o <<Ev("warn", {session.user, campaignId})>> \o AuthFail,
                d)
     ELSE IF upd.threw
       THEN Raised(pre \o AuthOk \o Issued("campaigns")
                     \o <<Ev("mutateFail", {})>>, d)
     ELSE IF upd.error # "none"
       THEN Out(Fail("No se pudo guardar la campana."),
                pre \o AuthOk \o MutateFailed("campaigns", upd), d)
     ELSE Out(Ok(<<>>),
              pre \o AuthOk \o MutateOk("campaigns") \o log.tr
                \o (IF campaignData.sites.subdomain # ""
                      THEN Invalidate(PathOf(campaignData.sites.subdomain,
                                             campaignId))
                      ELSE <<Ev("warn", {campaignId})>>),
              log.db)

(***************************************************************************)
(* actions/campaigns.actions.ts.  The session lookup is outside the        *)
(* try/catch, everything after it inside.                                  *)
(***************************************************************************)
IsName(x) == x # ""

CreateCampaignSchema(form) ==
  [ok |-> IsName(form.name) /\ IsUuid(form.siteId), site_id |-> form.siteId]

DeleteCampaignSchema(form) ==
  [ok |-> IsUuid(form.campaignId), campaignId |-> form.campaignId]

createCampaignAction(d, actor, form, fault) ==
  LET session == getUser(actor, fault)
      parsed == CreateCampaignSchema(form)
      lookup == getSiteById(d, parsed.site_id, fault)
      isAuthorized == hasWorkspacePermission(d, session.user,
                        lookup.site.workspace_id,
                        {"owner", "admin", "member"}, fault)
      ins == InsertCampaign(d, parsed.site_id, fault)
      pre == session.tr \o Validated \o lookup.tr
      log == createAuditLog(ins.db, "campaign.created",
                            {session.user, ins.id}, fault)
  IN IF session.threw THEN Raised(session.tr, d)
     ELSE IF session.user = NoUser
       THEN Out(Fail("Usuario no autenticado."), session.tr \o AuthFail, d)
     ELSE IF ~parsed.ok
       THEN Out(Fail("Datos invalidos."),
                session.tr \o <<Ev("validateFail", {})>>, d)
     ELSE IF lookup.threw THEN Caught(pre, d)
     ELSE IF ~lookup.found
       THEN Out(Fail("El sitio asociado no existe."), pre, d)
     ELSE IF isAuthorized.threw THEN Caught(pre \o isAuthorized.tr, d)
     ELSE IF ~isAuthorized.val
       THEN Out(Fail("No tienes permiso para crear campanas en este sitio."),
                pre \o isAuthorized.tr
                  \o <<Ev("warn", {session.user, parsed.site_id})>>
                  \o AuthFail, d)
     ELSE IF ins.threw
       THEN Caught(pre \o isAuthorized.tr \o AuthOk \o Issued("campaigns")
                     \o <<Ev("mutateFail", {})>>, d)
     ELSE IF ins.error # "none"
       THEN Out(Fail(IF ins.error = "BOUND" THEN "BOUND"
                     ELSE "No se pudo crear la campana."),
                pre \o isAuthorized.tr \o AuthOk
                  \o MutateFailed("campaigns", ins), d)
     ELSE Out(Ok(ins.id),
              pre \o isAuthorized.tr \o AuthOk \o MutateOk("campaigns")
                \o log.tr
                \o Invalidate(PathOf("/dashboard/sites/campaigns",
                                     parsed.site_id)),
              log.db)

deleteCampaignAction(d, actor, form, fault) ==
  LET session == getUser(actor, fault)
      parsed == DeleteCampaignSchema(form)
      f == FetchCampaignWithSite(d, parsed.campaignId, fault)
      workspaceId == f.sites.workspace_id
      isAuthorized == hasWorkspacePermission(d, session.user, workspaceId,
                        {"owner", "admin", "member"}, fault)
      del == DeleteCampaign(d, parsed.campaignId, fault)
      pre == session.tr \o Validated \o f.tr
      log == createAuditLog(del.db, "campaign.deleted",
                            {session.user, parsed.campaignId}, fault)
  IN IF session.threw THEN Raised(session.tr, d)
     ELSE IF session.user = NoUser
       THEN Out(Fail("Usuario no autenticado."), session.tr \o AuthFail, d)
     ELSE IF ~parsed.ok
       THEN Out(Fail("ID de campana invalido."),
                session.tr \o <<Ev("validateFail", {})>>, d)
     ELSE IF f.threw THEN Caught(pre, d)
     ELSE IF f.error # "none"
       THEN Out(Fail("La campana no se pudo encontrar."), pre, d)
     ELSE IF workspaceId = BadId
       THEN Out(Fail("Error de integridad de datos."),
                pre \o <<Ev("errorLog", {parsed.campaignId})>>, d)
     ELSE IF isAuthorized.threw THEN Caught(pre \o isAuthorized.tr, d)
     ELSE IF ~isAuthorized.val
       THEN Out(Fail("No tienes permiso para eliminar esta campana."),
                pre \o isAuthorized.tr
                  \o <<Ev("warn", {session.user, parsed.campaignId})>>
                  \o AuthFail, d)
     ELSE IF del.threw
       THEN Caught(pre \o isAuthorized.tr \o AuthOk \o Issued("campaigns")
                     \o <<Ev("mutateFail", {})>>, d)
     ELSE IF del.error # "none"
       THEN Out(Fail("No se pudo eliminar la campana."),
                pre \o isAuthorized.tr \o AuthOk
                  \o MutateFailed("campaigns", del), d)
     ELSE Out(Ok(<<"Campana eliminada.">>),
              pre \o isAuthorized.tr \o AuthOk \o MutateOk("campaigns")
                \o log.tr
                \o Invalidate(PathOf("/dashboard/sites/campaigns",
                                     f.campaign.site_id)),
              log.db)

(***************************************************************************)
(* actions/admin.actions.ts.  No try/catch in any of the three.            *)
(***************************************************************************)
DeleteSiteBySubdomain(d, subdomain, fault) ==
  LET rows == {x \in d.sites : x.subdomain = subdomain}
  IN IF fault \in {"storageThrow", "storageErr"} THEN StorageFault(d, fault)
     ELSE IF Cardinality(rows) # 1 THEN Write(FALSE, "PGRST116", BadId, d)
     ELSE Write(FALSE, "none", (CHOOSE x \in rows : TRUE).id,
                [d EXCEPT !.sites = @ \ rows])

UpdateProfileRole(d, userId, newRole, fault) ==
  IF fault \in {"storageThrow", "storageErr"} THEN StorageFault(d, fault)
  ELSE Write(FALSE, "none", userId,
             [d EXCEPT !.profiles =
                {IF x.id = userId THEN [x EXCEPT !.app_role = newRole]
                 ELSE x : x \in @}])

impersonateUserAction(d, actor, userId, fault) ==
  LET roleCheck == requireAppRole(d, actor, {"developer"}, fault)
      target == Single(ProfileRows(d, userId), fault = "lookupErr")
      pre == roleCheck.tr \o <<Ev("userLookup", {userId})>>
      log == createAuditLog(d, "user_impersonated",
                            {roleCheck.user, userId}, fault)
  IN IF roleCheck.threw THEN Raised(roleCheck.tr, d)
     ELSE IF ~roleCheck.success
       THEN Out(Fail(roleCheck.error), roleCheck.tr, d)
     ELSE IF roleCheck.user = userId
       THEN Out(Fail("No puedes suplantarte a ti mismo."), roleCheck.tr, d)
     ELSE IF fault = "lookupThrow" THEN Raised(pre, d)
     ELSE IF target.error # "none"
       THEN Out(Fail("Usuario no encontrado."),
                pre \o <<Ev("errorLog", {userId})>>, d)
     ELSE IF fault = "storageThrow"
       THEN Raised(pre \o Issued("auth.links") \o <<Ev("mutateFail", {})>>, d)
     ELSE IF fault = "storageErr"
       THEN Out(Fail("No se pudo generar el link de suplantacion."),
                pre \o Issued("auth.links") \o <<Ev("mutateFail", {})>>
                  \o <<Ev("errorLog", {userId})>>, d)
     ELSE Out(Ok(<<"action_link", userId>>),
              pre \o MutateOk("auth.links") \o log.tr, log.db)

deleteSiteAsAdminAction(d, actor, form, fault) ==
  LET roleCheck == requireAppRole(d, actor, {"admin", "developer"}, fault)
      del == DeleteSiteBySubdomain(d, form.subdomain, fault)
      log == createAuditLog(del.db, "site_deleted_admin",
                            {roleCheck.user, del.id}, fault)
  IN IF roleCheck.threw THEN Raised(roleCheck.tr, d)
     ELSE IF ~roleCheck.success
       THEN Out(Fail(roleCheck.error), roleCheck.tr, d)
     ELSE IF form.subdomain = ""
       THEN Out(Fail("Subdominio ausente."), roleCheck.tr, d)
     ELSE IF del.threw
       THEN Raised(roleCheck.tr \o Issued("sites")
                     \o <<Ev("mutateFail", {})>>, d)
     ELSE IF del.error # "none"
       THEN Out(Fail("No se pudo eliminar el sitio."),
                roleCheck.tr \o Issued("sites") \o <<Ev("mutateFail", {})>>
                  \o <<Ev("errorLog", {Table("sites")})>>, d)
     ELSE Out(Ok(<<"Sitio eliminado correctamente.", form.subdomain>>),
              roleCheck.tr \o MutateOk("sites")
                \o Invalidate(Tag("sites", form.subdomain))
                \o Invalidate(Path("/admin"))
                \o log.tr,
              log.db)

updateUserRoleAction(d, actor, userId, newRole, fault) ==
  LET roleCheck == requireAppRole(d, actor, {"developer"}, fault)
      upd == UpdateProfileRole(d, userId, newRole, fault)
      log == createAuditLog(upd.db, "user_role_updated",
                            {roleCheck.user, userId}, fault)
  IN IF roleCheck.threw THEN Raised(roleCheck.tr, d)
     ELSE IF ~roleCheck.success
       THEN Out(Fail(roleCheck.error), roleCheck.tr, d)
     ELSE IF roleCheck.user = userId
       THEN Out(Fail("No puedes cambiar tu propio rol."), roleCheck.tr, d)
     ELSE IF upd.threw
       THEN Raised(roleCheck.tr \o Issued("profiles")
                     \o <<Ev("mutateFail", {})>>, d)
     ELSE IF upd.error # "none"
       THEN Out(Fail("No se pudo actualizar el rol."),
                roleCheck.tr \o MutateFailed("profiles", upd), d)
     ELSE Out(Ok(<<>>),
              roleCheck.tr \o MutateOk("profiles")
                \o Invalidate(Path("/dev-console/users"))
                \o log.tr,
              log.db)

(***************************************************************************)
(* The invitations table and data/invitations.ts.  An invitation is keyed  *)
(* by workspace and recipient email.                                       *)
(***************************************************************************)
E(n) == <<"e", n>>
I(n) == <<"i", n>>
Email(u) == E(u[2])
Emails == {Email(u) : u \in Users}
InvitationIds == {I(1)}
InvitationRows(d, id) == {x \in d.invitations : x.id = id}
FreeInvitationIds(d) == {i \in InvitationIds : InvitationRows(d, i) = {}}

InvitationKeyTaken(d, workspaceId, email) ==
  \E x \in d.invitations :
    x.workspace_id = workspaceId /\ x.invitee_email = email

createInvitation(d, payload, fault) ==
  IF fault \in {"storageThrow", "storageErr"} THEN StorageFault(d, fault)
  ELSE IF InvitationKeyTaken(d, payload.workspace_id, payload.invitee_email)
    THEN Write(FALSE, "23505", BadId, d)
  ELSE IF FreeInvitationIds(d) = {} THEN Write(FALSE, "BOUND", BadId, d)
  ELSE LET id == CHOOSE i \in FreeInvitationIds(d) : TRUE
       IN Write(FALSE, "none", id,
                [d EXCEPT !.invitations = @ \cup
                   {[id |-> id, workspace_id |-> payload.workspace_id,
                     invitee_email |-> payload.invitee_email,
                     role |-> payload.role, status |-> "pending"]}])

\* The stored procedure accept_workspace_invitation: all or nothing.  It
\* refuses an invitation that does not exist, is not pending or is addressed
\* to another email; a user who already is a member of the workspace makes
\* the insert fail; otherwise the user becomes a member with the invited
\* role and the invitation becomes accepted.
accept_workspace_invitation(d, invitationId, userId) ==
  LET rows == {x \in InvitationRows(d, invitationId) :
                 x.status = "pending" /\ x.invitee_email = Email(userId)}
      inv == CHOOSE x \in rows : TRUE
  IN IF rows = {} THEN [error |-> "none", success |-> FALSE, db |-> d]
     ELSE IF MemberRows(d, userId, inv.workspace_id) # {}
       THEN [error |-> "23505", success |-> FALSE, db |-> d]
     ELSE [error |-> "none", success |-> TRUE,
           db |-> [d EXCEPT
             !.invitations = (@ \ rows) \cup
                 {[inv EXCEPT !.status = "accepted"]},
             !.workspace_members = @ \cup
                 {[user_id |-> userId, workspace_id |-> inv.workspace_id,
                   role |-> inv.role]}]]

RpcRefused == "Invitacion invalida."

acceptInvitation(d, invitationId, userId, fault) ==
  LET rpc == accept_workspace_invitation(d, invitationId, userId)
  IN IF fault = "storageThrow"
       THEN [threw |-> TRUE, success |-> FALSE, error |-> "", db |-> d,
             tr |-> <<>>]
     ELSE IF fault = "storageErr" \/ rpc.error # "none"
       THEN [threw |-> FALSE, success |-> FALSE,
             error |-> "No se pudo procesar la aceptacion.", db |-> d,
             tr |-> <<Ev("errorLog", {invitationId})>>]
     ELSE IF ~rpc.success
       THEN [threw |-> FALSE, success |-> FALSE, error |-> RpcRefused,
             db |-> d, tr |-> <<Ev("warn", {invitationId})>>]
     ELSE [threw |-> FALSE, success |-> TRUE, error |-> "", db |-> rpc.db,
           tr |-> <<>>]

InvitationServerSchema(form) ==
  [ok |-> form.email \in Emails
          /\ form.role \in {"admin", "member", "owner"}
          /\ IsUuid(form.workspaceId),
   invitee_email |-> form.email, role |-> form.role,
   workspace_id |-> form.workspaceId]

(***************************************************************************)
(* actions/invitations.actions.ts.  sendWorkspaceInvitationAction reads    *)
(* the session before its try block; acceptInvitationAction has none.      *)
(***************************************************************************)
sendWorkspaceInvitationAction(d, actor, form, fault) ==
  LET session == getUser(actor, fault)
      parsedData == InvitationServerSchema(form)
      permissionCheck == requireWorkspacePermission(d, actor,
                           parsedData.workspace_id, {"owner", "admin"}, fault)
      ins == createInvitation(d, parsedData, fault)
      pre == session.tr \o Validated \o permissionCheck.tr
      log == createAuditLog(ins.db, "workspace_invitation_sent",
                            {session.user, parsedData.workspace_id}, fault)
  IN IF session.threw THEN Raised(session.tr, d)
     ELSE IF session.user = NoUser
       THEN Out(Fail("No autenticado."),
                session.tr \o <<Ev("warn", {})>> \o AuthFail, d)
     ELSE IF ~parsedData.ok
       THEN Out(Fail("Datos de invitacion invalidos."),
                session.tr \o <<Ev("validateFail", {})>>, d)
     ELSE IF parsedData.invitee_email = Email(session.user)
       THEN Out(Fail("No puedes invitarte a ti mismo."),
                session.tr \o Validated, d)
     ELSE IF permissionCheck.threw THEN Caught(pre, d)
     ELSE IF ~permissionCheck.success
       THEN Out(Fail(permissionCheck.error), pre, d)
     ELSE IF ins.threw
       THEN Caught(pre \o Issued("invitations") \o <<Ev("mutateFail", {})>>, d)
     ELSE IF ins.error = "23505"
       THEN Out(Fail("Este usuario ya ha sido invitado o ya es miembro."),
                pre \o MutateFailed("invitations", ins), d)
     ELSE IF ins.error # "none"
       THEN Out(Fail(IF ins.error = "BOUND" THEN "BOUND"
                     ELSE "No se pudo enviar la invitacion."),
                pre \o MutateFailed("invitations", ins), d)
     ELSE Out(Ok(<<"Invitacion enviada.", parsedData.invitee_email>>),
              pre \o MutateOk("invitations") \o log.tr
                \o Invalidate(Tag("invitations", parsedData.invitee_email)),
              log.db)

acceptInvitationAction(d, actor, invitationId, fault) ==
  LET session == getUser(actor, fault)
      res == acceptInvitation(d, invitationId, session.user, fault)
      pre == session.tr \o AuthOk \o Issued("invitations")
      log == createAuditLog(res.db, "workspace_invitation_accepted",
                            {session.user, invitationId}, fault)
  IN IF session.threw THEN Raised(session.tr, d)
     ELSE IF session.user = NoUser
       THEN Out(Fail("No autenticado."), session.tr \o AuthFail, d)
     ELSE IF res.threw THEN Raised(pre \o <<Ev("mutateFail", {})>>, d)
     ELSE IF ~res.success
       THEN Out(Fail(res.error),
                pre \o <<Ev("mutateFail", {})>> \o res.tr, d)
     ELSE Out(Ok(<<"Te has unido al workspace con exito!">>),
              pre \o <<Ev("mutateOk", {})>> \o log.tr
                \o Invalidate(Tag("invitations", Email(session.user)))
                \o Invalidate(Tag("workspaces", session.user))
                \o Invalidate(Path("/dashboard")),
              log.db)

(***************************************************************************)
(* actions/workspaces.actions.ts: createWorkspaceAction.  The session is   *)
(* read before the try block.  The stored procedure                        *)
(* create_workspace_with_owner inserts the workspace and its owner         *)
(* membership in one transaction.                                          *)
(***************************************************************************)
WorkspaceIds == Workspaces \cup {W(3)}
FreeWorkspaceIds(d) == WorkspaceIds \ d.workspaces

create_workspace_with_owner(d, ownerUserId) ==
  IF FreeWorkspaceIds(d) = {} THEN Write(FALSE, "BOUND", BadId, d)
  ELSE LET id == CHOOSE w \in FreeWorkspaceIds(d) : TRUE
       IN Write(FALSE, "none", id,
                [d EXCEPT !.workspaces = @ \cup {id},
                          !.workspace_members = @ \cup
                             {[user_id |-> ownerUserId, workspace_id |-> id,
                               role |-> "owner"]}])

CreateWorkspaceSchema(form) ==
  [ok |-> IsName(form.workspaceName) /\ form.icon # ""]

createWorkspaceAction(d, actor, form, fault) ==
  LET session == getUser(actor, fault)
      parsed == CreateWorkspaceSchema(form)
      rpc == IF fault \in {"storageThrow", "storageErr"}
               THEN StorageFault(d, fault)
             ELSE create_workspace_with_owner(d, session.user)
      pre == session.tr \o AuthOk \o Validated
      log == createAuditLog(rpc.db, "workspace_created",
                            {session.user, rpc.id}, fault)
  IN IF session.threw THEN Raised(session.tr, d)
     ELSE IF session.user = NoUser
       THEN Out(Fail("No autenticado. Inicia sesion de nuevo."),
                session.tr \o <<Ev("warn", {})>> \o AuthFail, d)
     ELSE IF ~parsed.ok
       THEN Out(Fail(IF IsName(form.workspaceName) THEN "Datos invalidos."
                     ELSE "El nombre debe tener al menos 3 caracteres."),
                session.tr \o AuthOk
                  \o <<Ev("validateFail", {}), Ev("warn", {session.user})>>,
                d)
     ELSE IF rpc.threw
       THEN Caught(pre \o Issued("workspaces") \o <<Ev("mutateFail", {})>>, d)
     ELSE IF rpc.error # "none"
       THEN Out(Fail(IF rpc.error = "BOUND" THEN "BOUND"
                     ELSE "No se pudo crear el workspace."),
                pre \o MutateFailed("workspaces", rpc), d)
     ELSE Out(Ok(rpc.id),
              pre \o MutateOk("workspaces") \o log.tr
                \o Invalidate(Path("/dashboard")),
              log.db)

(***************************************************************************)
(* actions/profiles.actions.ts: updateDashboardLayoutAction.  No try/catch *)
(* and no audit log.  The dashboard_layout column itself is not part of    *)
(* the state: nothing reads it.                                            *)
(***************************************************************************)
updateDashboardLayoutAction(d, actor, fault) ==
  LET session == getUser(actor, fault)
      pre == session.tr \o AuthOk \o Issued("profiles")
  IN IF session.threw THEN Raised(session.tr, d)
     ELSE IF session.user = NoUser
       THEN Out(Fail("No autenticado."), session.tr \o AuthFail, d)
     ELSE IF fault = "storageThrow"
       THEN Raised(pre \o <<Ev("mutateFail", {})>>, d)
     ELSE IF fault = "storageErr"
       THEN Out(Fail("No se pudo guardar el layout."),
                pre \o <<Ev("mutateFail", {})>>, d)
     ELSE Out(Ok(<<>>),
              pre \o <<Ev("mutateOk", {})>>
                \o Invalidate(Path("/dashboard")),
              d)

(***************************************************************************)
(* actions/password.actions.ts: updatePasswordAction.  No try/catch; the   *)
(* form is validated with safeParse, which does not throw.                 *)
(***************************************************************************)
updatePasswordAction(d, actor, formOk, fault) ==
  LET session == getUser(actor, fault)
      pre == Validated \o session.tr \o AuthOk \o Issued("auth.users")
      log == createAuditLog(d, "password_reset_success", {session.user},
                            fault)
  IN IF ~formOk THEN Invalid("Datos invalidos.", d)
     ELSE IF session.threw THEN Raised(Validated \o session.tr, d)
     ELSE IF session.user = NoUser
       THEN Out(Fail("Sesion de recuperacion invalida o expirada. Por favor, solicita un nuevo enlace."),
                Validated \o session.tr \o AuthFail, d)
     ELSE IF fault = "storageThrow"
       THEN Raised(pre \o <<Ev("mutateFail", {})>>, d)
     ELSE IF fault = "storageErr"
       THEN Out(Fail("No fue posible actualizar la contrasena. Intente nuevamente."),
                pre \o <<Ev("mutateFail", {}),
                         Ev("errorLog", {session.user})>>, d)
     ELSE Out(Ok(<<>>),
              pre \o <<Ev("mutateOk", {})>> \o log.tr
                \o <<Ev("signOutOthers", {session.user})>>,
              log.db)

(***************************************************************************)
(* actions/password.actions.ts: requestPasswordResetAction, and            *)
(* actions/auth.actions.ts: signUpAction.  auth_users holds the emails     *)
(* that have an account.  redirect() raises the framework's redirect       *)
(* signal at the call: outside a try it leaves the action and the client   *)
(* is redirected (result kind "redirect"); inside a try the catch gets it. *)
(* The rate limiter and the email service are simulated in the source:     *)
(* they always answer success.                                             *)
(***************************************************************************)
Redirected(path) == [kind |-> "redirect", error |-> "", data |-> <<path>>]
Redirect(path) == <<Ev("redirect", {Path(path)})>>

Stranger == E(0)
IsEmail(x) == x \in Emails \cup {Stranger}

\* auth.admin.generateLink({type: "recovery"}): an error for an email
\* without account.
generateLink(d, email, fault) ==
  [error |-> (email \notin d.auth_users \/ fault = "storageErr"),
   tr |-> <<Ev("generateLink", {email})>>]

\* A variant that tells the client when no link could be generated.
requestPasswordResetAction_reportsError(d, form, fault) ==
  LET link == generateLink(d, form.email, fault)
      log == createAuditLog(d, "password_reset_request", {form.email}, fault)
  IN IF ~IsEmail(form.email)
       THEN Out(Fail("Por favor, introduce un email valido."),
                <<Ev("validateFail", {})>>, d)
     ELSE IF fault = "storageThrow" THEN Raised(Validated \o link.tr, d)
     ELSE IF link.error
       THEN Out(Fail("No se pudo enviar el correo."),
                Validated \o link.tr \o <<Ev("errorLog", {form.email})>>, d)
     ELSE Out(Redirected("/auth-notice?message=check-email-for-reset"),
              Validated \o link.tr \o <<Ev("emailSent", {form.email})>>
                \o log.tr
                \o Redirect("/auth-notice?message=check-email-for-reset"),
              log.db)

requestPasswordResetAction(d, form, fault) ==
  LET link == generateLink(d, form.email, fault)
      log == createAuditLog(d, "password_reset_request", {form.email}, fault)
  IN IF ~IsEmail(form.email)
       THEN Out(Fail("Por favor, introduce un email valido."),
                <<Ev("validateFail", {})>>, d)
     ELSE IF fault = "storageThrow" THEN Raised(Validated \o link.tr, d)
     ELSE Out(Redirected("/auth-notice?message=check-email-for-reset"),
              Validated \o link.tr
                \o (IF link.error THEN <<Ev("errorLog", {form.email})>>
                                  ELSE <<Ev("emailSent", {form.email})>>)
                \o log.tr
                \o Redirect("/auth-notice?message=check-email-for-reset"),
              log.db)

\* auth.signUp: an error for an email that has an account already.
SignUp(d, email, fault) ==
  IF fault \in {"storageThrow", "storageErr"} THEN StorageFault(d, fault)
  ELSE IF email \in d.auth_users THEN Write(FALSE, "422", BadId, d)
  ELSE Write(FALSE, "none", email, [d EXCEPT !.auth_users = @ \cup {email}])

SignUpSchema(form) == IsEmail(form.email) /\ form.passwordOk

\* signUpAction: the redirect is called inside the try, so its signal is
\* caught by the catch, which takes it for an unexpected error.
signUpAction(d, form, fault) ==
  LET reg == SignUp(d, form.email, fault)
      pre == Validated \o Issued("auth.users")
      log == createAuditLog(reg.db, "user_signup_initiated", {form.email},
                            fault)
  IN IF ~SignUpSchema(form)
       THEN Out(Fail("Datos de registro invalidos."),
                <<Ev("validateFail", {}), Ev("warn", {})>>, d)
     ELSE IF reg.threw THEN Caught(pre \o <<Ev("mutateFail", {})>>, d)
     ELSE IF reg.error # "none"
       THEN Out(Fail("No se pudo completar el registro. El correo electronico ya podria estar en uso."),
                pre \o <<Ev("mutateFail", {}), Ev("warn", {form.email})>>, d)
     ELSE Caught(pre \o <<Ev("mutateOk", {})>> \o log.tr
                   \o Redirect("/auth-notice?message=check-email-for-confirmation"),
                 log.db)

(***************************************************************************)
(* actions/telemetry.actions.ts: logClientVisitAction.  Whole body inside  *)
(* try/catch; writes visitor_logs, which nothing else reads; no audit log. *)
(***************************************************************************)
logClientVisitAction(d, payloadOk, fault) ==
  LET pre == Validated \o Issued("visitor_logs")
  IN IF ~payloadOk
       THEN Out(Fail("Datos de cliente invalidos."),
                <<Ev("validateFail", {}), Ev("warn", {})>>, d)
     ELSE IF fault = "storageThrow"
       THEN Caught(pre \o <<Ev("mutateFail", {})>>, d)
     ELSE IF fault = "storageErr"
       THEN Out(Fail("No se pudo registrar la visita."),
                pre \o <<Ev("mutateFail", {}),
                         Ev("errorLog", {Table("visitor_logs")})>>, d)
     ELSE Out(Ok(<<>>), pre \o <<Ev("mutateOk", {})>>, d)

(***************************************************************************)
(* The state machine.  Init is a store with two workspaces: U(1) owns W(1) *)
(* where U(2) is a member; U(2) owns W(2) where U(3) is an admin.          *)
(***************************************************************************)
Member(u, w, r) == [user_id |-> u, workspace_id |-> w, role |-> r]
Profile(u, r) == [id |-> u, app_role |-> r]

TooShort(subdomain) == subdomain \in {"", "ab"}

\* data/sites.ts: getSiteDataByHost for a slug: the site with that
\* subdomain or null; a query error is logged and gives null as well.
getSiteDataByHost(d, host, fault) ==
  IF fault = "lookupErr" THEN {}
  ELSE {x \in d.sites : x.subdomain = host}

CheckFaults == {"none", "lookupErr", "lookupThrow", "network"}

\* checkSubdomainAvailabilityAction as the awaiting client sees it: a
\* result, or a rejected call when the request itself fails.
checkSubdomainAvailabilityAction(d, subdomain, fault) ==
  IF fault = "network" THEN Threw
  ELSE IF TooShort(subdomain) THEN Fail("Subdominio invalido.")
  ELSE IF fault = "lookupThrow"
    THEN Fail("Error del servidor al verificar.")
  ELSE Ok(<<getSiteDataByHost(d, subdomain, fault) = {}>>)

\* unstable_cache around the lookup, one entry per host.  A hit returns
\* the stored value without a query; a miss runs the lookup and stores
\* what it returned.
NoEntry == [hit |-> FALSE, data |-> {}]
NoEntries == [host \in Subdomains |-> NoEntry]
Stored(entries, d, host, fault) ==
  IF host \notin DOMAIN entries \/ fault = "lookupThrow" THEN entries
  ELSE IF entries[host].hit THEN entries
  ELSE [entries EXCEPT
          ![host] = [hit |-> TRUE, data |-> getSiteDataByHost(d, host, fault)]]

\* checkSubdomainAvailabilityAction on the server, reading through the
\* cache.
checkSubdomainAvailability(entries, d, subdomain, fault) ==
  IF subdomain \in DOMAIN entries /\ entries[subdomain].hit
    THEN Ok(<<entries[subdomain].data = {}>>)
    ELSE checkSubdomainAvailabilityAction(d, subdomain, fault)

InitDb ==
  [sites |-> {[id |-> S(1), subdomain |-> "acme", workspace_id |-> W(1)]},
   campaigns |-> {},
   workspace_members |-> {Member(U(1), W(1), "owner"),
                          Member(U(2), W(1), "member"),
                          Member(U(2), W(2), "owner"),
                          Member(U(3), W(2), "admin")},
   profiles |-> {Profile(U(1), "user"), Profile(U(2), "admin"),
                 Profile(U(3), "developer")},
   invitations |-> {},
   workspaces |-> Workspaces,
   auth_users |-> Emails,
   audit_logs |-> 0]

NoArgs == [none |-> TRUE]
NoCookie == <<"null", 0>>

Idle == [name |-> "none", actor |-> NoUser, args |-> NoArgs, fault |-> "none"]

StoreInit ==
  /\ db = InitDb
  /\ call = Idle
  /\ result = Value(FALSE)
  /\ trace = <<>>
  /\ hostCache = NoEntries
  /\ active_workspace_id = NoCookie

\* The hook is mounted with the server's list; nothing is in flight.
R(n) == <<"r", n>>
ServerList == <<R(1)>>
NoId == <<"null", 0>>

HookInit ==
  /\ initialItems = ServerList
  /\ items = initialItems
  /\ mutatingId = NoId
  /\ serverItems = ServerList
  /\ ops = <<>>
  /\ refreshPending = FALSE

\* useSubdomainAvailability is mounted on an untouched, empty field: the
\* effect's first run dispatches RESET.
AvailInit ==
  /\ subdomainValue = ""
  /\ isDirty = FALSE
  /\ hasErrors = FALSE
  /\ status = "idle"
  /\ timers = <<>>
  /\ checks = <<>>
  /\ answer = "none"
  /\ run = <<>>
  /\ calls = <<>>
  /\ changes = 0
  /\ resolved = 0
  /\ dispatched = [from |-> "idle", action |-> [type |-> "RESET",
                                                 isAvailable |-> FALSE]]

Init == StoreInit /\ HookInit /\ AvailInit

Callers == Users \cup {NoUser}

\* One invocation, from its call to its return, on a server that is
\* serving no other request.
Free == call = Idle /\ db.audit_logs < MaxAudit

\* The handlers that neither read nor purge the cache of the host lookup
\* run while it holds no entry, and those that neither read nor set the
\* cookie run while it is not set.
Uncached == hostCache = NoEntries
Unset == active_workspace_id = NoCookie
Ready == Free /\ Uncached /\ Unset

Serve(name, actor, args, fault, out) ==
  /\ out.res.error # "BOUND"
  /\ db' = out.db
  /\ call' = [name |-> name, actor |-> actor, args |-> args, fault |-> fault]
  /\ result' = out.res
  /\ trace' = out.tr
  /\ UNCHANGED <<hookVars, availVars>>

Invoke(name, actor, args, fault, out) ==
  /\ Serve(name, actor, args, fault, out)
  /\ UNCHANGED <<hostCache, active_workspace_id>>

\* A handler that ends in revalidatePath of a dashboard or admin path, or
\* in revalidateTag of a tag other than 'sites:host:<host>'.  No handler
\* names the tag of the host lookup; whether the path purge reaches its
\* entries depends on the route the lookup was cached from, so both
\* outcomes are taken.
InvokeAndRevalidate(name, actor, args, fault, out) ==
  /\ Serve(name, actor, args, fault, out)
  /\ hostCache' \in IF \E i \in DOMAIN out.tr : out.tr[i].e = "invalidate"
                       THEN {hostCache, NoEntries} ELSE {hostCache}
  /\ UNCHANGED active_workspace_id

\* Interleaving bound.  The handlers fall into families by the tables they
\* write; a family runs only while the tables written by the other
\* families still hold their initial rows.  Every handler still runs on
\* every content of the tables its own family writes; the guards and the
\* handlers that write no modelled table run in every state.  One
\* consequence: a site is never deleted while a campaign refers to it.
SitesQuiet == db.sites = InitDb.sites
CampaignsQuiet == db.campaigns = InitDb.campaigns
ProfilesQuiet == db.profiles = InitDb.profiles
InvitationsQuiet ==
  /\ db.invitations = InitDb.invitations
  /\ db.workspace_members = InitDb.workspace_members
WorkspacesQuiet ==
  /\ db.workspaces = InitDb.workspaces
  /\ db.workspace_members = InitDb.workspace_members
AuthQuiet == db.auth_users = InitDb.auth_users

SiteFamily ==
  /\ CampaignsQuiet /\ ProfilesQuiet /\ InvitationsQuiet /\ WorkspacesQuiet
  /\ AuthQuiet
CampaignFamily ==
  /\ SitesQuiet /\ ProfilesQuiet /\ InvitationsQuiet /\ WorkspacesQuiet
  /\ AuthQuiet
ProfileFamily ==
  /\ SitesQuiet /\ CampaignsQuiet /\ InvitationsQuiet /\ WorkspacesQuiet
  /\ AuthQuiet
InvitationFamily ==
  /\ SitesQuiet /\ CampaignsQuiet /\ ProfilesQuiet /\ AuthQuiet
  /\ db.workspaces = InitDb.workspaces
WorkspaceFamily ==
  /\ SitesQuiet /\ CampaignsQuiet /\ ProfilesQuiet /\ AuthQuiet
  /\ db.invitations = InitDb.invitations
AuthFamily ==
  /\ SitesQuiet /\ CampaignsQuiet /\ ProfilesQuiet /\ InvitationsQuiet
  /\ WorkspacesQuiet

RoleSets == {{}, {"owner"}, {"member"}, {"owner", "admin"}, WorkspaceRoles}
AppRoleSets == {{"developer"}, {"admin", "developer"}}

GuardResult(g) ==
  IF g.threw THEN Threw
  ELSE IF g.success THEN Ok(<<g.user, g.site.id>>)
  ELSE Fail(g.error)

CallHasWorkspacePermission ==
  /\ Ready
  /\ \E u \in Users, w \in Workspaces \cup {BadId}, roles \in RoleSets,
       fault \in {"none", "memberLookupErr", "lookupThrow"} :
      LET r == hasWorkspacePermission(db, u, w, roles, fault)
      IN Invoke("hasWorkspacePermission", u,
                [userId |-> u, workspaceId |-> w, requiredRoles |-> roles],
                fault,
                Out(IF r.threw THEN Threw ELSE Value(r.val), r.tr, db))

CallRequireAppRole ==
  /\ Ready
  /\ \E actor \in Callers, roles \in AppRoleSets,
       fault \in {"none", "sessionThrow"} :
      LET g == requireAppRole(db, actor, roles, fault)
      IN Invoke("requireAppRole", actor, [requiredRoles |-> roles], fault,
                Out(GuardResult(g), g.tr, db))

CallRequireWorkspacePermission ==
  /\ Ready
  /\ \E actor \in Callers, w \in Workspaces, roles \in RoleSets,
       fault \in {"none", "sessionThrow", "memberLookupErr", "lookupThrow"} :
      LET g == requireWorkspacePermission(db, actor, w, roles, fault)
      IN Invoke("requireWorkspacePermission", actor,
                [workspaceId |-> w, requiredRoles |-> roles], fault,
                Out(GuardResult(g), g.tr, db))

CallRequireSitePermission ==
  /\ Ready
  /\ \E actor \in Callers, siteId \in SiteIds, roles \in RoleSets,
       fault \in {"none", "sessionThrow", "memberLookupErr", "lookupErr",
                  "lookupThrow"} :
      LET g == requireSitePermission(db, actor, siteId, roles, fault)
      IN Invoke("requireSitePermission", actor,
                [siteId |-> siteId, requiredRoles |-> roles], fault,
                Out(GuardResult(g), g.tr, db))

WriteFaults == {"storageErr", "storageThrow", "auditErr", "auditThrow"}
GuardedFaults ==
  {"none", "sessionThrow", "memberLookupErr", "lookupThrow"} \cup WriteFaults

CreateSite ==
  /\ Free /\ Unset /\ SiteFamily
  /\ \E actor \in Callers, sub \in Subdomains \cup {BadSubdomain},
       w \in Workspaces, fault \in GuardedFaults :
      LET form == [subdomain |-> sub, workspaceId |-> w]
      IN InvokeAndRevalidate("createSiteAction", actor, form, fault,
                   createSiteAction(db, actor, form, fault))

UpdateSiteCall ==
  /\ Free /\ Unset /\ SiteFamily
  /\ \E actor \in Callers, siteId \in SiteIds \cup {BadId},
       sub \in Subdomains \cup {NoChange}, fault \in Faults :
      LET form == [siteId |-> siteId, subdomain |-> sub]
      IN InvokeAndRevalidate("updateSiteAction", actor, form, fault,
                   updateSiteAction(db, actor, form, fault))

DeleteSiteCall ==
  /\ Free /\ Unset /\ SiteFamily
  /\ \E actor \in Callers, siteId \in SiteIds \cup {BadId}, fault \in Faults :
      LET form == [siteId |-> siteId]
      IN InvokeAndRevalidate("deleteSiteAction", actor, form, fault,
                   deleteSiteAction(db, actor, form, fault))

DeleteSiteAsAdmin ==
  /\ Free /\ Unset /\ SiteFamily
  /\ \E actor \in Callers, sub \in Subdomains \cup {""},
       fault \in {"none", "sessionThrow"} \cup WriteFaults :
      LET form == [subdomain |-> sub]
      IN InvokeAndRevalidate("deleteSiteAsAdminAction", actor, form, fault,
                   deleteSiteAsAdminAction(db, actor, form, fault))

CreateCampaign ==
  /\ Ready /\ CampaignFamily
  /\ \E actor \in Callers, siteId \in SiteIds \cup {BadId},
       name \in {"Promo", ""}, fault \in Faults :
      LET form == [siteId |-> siteId, name |-> name]
      IN Invoke("createCampaignAction", actor, form, fault,
                   createCampaignAction(db, actor, form, fault))

DeleteCampaignCall ==
  /\ Ready /\ CampaignFamily
  /\ \E actor \in Callers, campaignId \in CampaignIds \cup {BadId},
       fault \in Faults :
      LET form == [campaignId |-> campaignId]
      IN Invoke("deleteCampaignAction", actor, form, fault,
                   deleteCampaignAction(db, actor, form, fault))

UpdateCampaignContentCall ==
  /\ Ready /\ CampaignFamily
  /\ \E actor \in Callers, campaignId \in CampaignIds, content \in {"v1", "v2"},
       fault \in Faults :
      Invoke("updateCampaignContentAction", actor,
                [campaignId |-> campaignId, content |-> content], fault,
                updateCampaignContentAction(db, actor, campaignId, content,
                                            fault))

Impersonate ==
  /\ Ready
  /\ \E actor \in Callers, userId \in Users \cup {U(4)},
       fault \in {"none", "sessionThrow", "lookupErr", "lookupThrow"}
                 \cup WriteFaults :
      Invoke("impersonateUserAction", actor, [userId |-> userId], fault,
             impersonateUserAction(db, actor, userId, fault))

UpdateUserRole ==
  /\ Ready /\ ProfileFamily
  /\ \E actor \in Callers, userId \in Users \cup {U(4)}, newRole \in AppRoles,
       fault \in {"none", "sessionThrow"} \cup WriteFaults :
      Invoke("updateUserRoleAction", actor,
                [userId |-> userId, newRole |-> newRole], fault,
                updateUserRoleAction(db, actor, userId, newRole, fault))

SendWorkspaceInvitation ==
  /\ Ready /\ InvitationFamily
  /\ \E actor \in Callers, email \in Emails \cup {BadId},
       role \in {"member", "owner"}, w \in Workspaces, fault \in GuardedFaults :
      LET form == [email |-> email, role |-> role, workspaceId |-> w]
      IN Invoke("sendWorkspaceInvitationAction", actor, form, fault,
                   sendWorkspaceInvitationAction(db, actor, form, fault))

AcceptInvitation ==
  /\ Ready /\ InvitationFamily
  /\ \E actor \in Callers, invitationId \in InvitationIds,
       fault \in {"none", "sessionThrow"} \cup WriteFaults :
      Invoke("acceptInvitationAction", actor,
                [invitationId |-> invitationId], fault,
                acceptInvitationAction(db, actor, invitationId, fault))

CreateWorkspace ==
  /\ Ready /\ WorkspaceFamily
  /\ \E actor \in Callers, name \in {"Team", ""}, icon \in {"rocket", ""},
       fault \in {"none", "sessionThrow"} \cup WriteFaults :
      LET form == [workspaceName |-> name, icon |-> icon]
      IN Invoke("createWorkspaceAction", actor, form, fault,
                   createWorkspaceAction(db, actor, form, fault))

UpdateDashboardLayout ==
  /\ Ready
  /\ \E actor \in Callers,
       fault \in {"none", "sessionThrow", "storageErr", "storageThrow"} :
      Invoke("updateDashboardLayoutAction", actor, NoArgs, fault,
             updateDashboardLayoutAction(db, actor, fault))

UpdatePassword ==
  /\ Ready
  /\ \E actor \in Callers, formOk \in BOOLEAN,
       fault \in {"none", "sessionThrow"} \cup WriteFaults :
      Invoke("updatePasswordAction", actor, [formOk |-> formOk], fault,
             updatePasswordAction(db, actor, formOk, fault))

LogClientVisit ==
  /\ Ready
  /\ \E payloadOk \in BOOLEAN, fault \in {"none", "storageErr", "storageThrow"} :
      Invoke("logClientVisitAction", NoUser, [payloadOk |-> payloadOk], fault,
             logClientVisitAction(db, payloadOk, fault))

RequestPasswordReset ==
  /\ Ready
  /\ \E email \in {E(1), Stranger, BadId},
       fault \in {"none", "storageErr", "storageThrow", "auditErr"} :
      LET form == [email |-> email]
      IN Invoke("requestPasswordResetAction", NoUser, form, fault,
                requestPasswordResetAction(db, form, fault))

SignUpCall ==
  /\ Ready /\ AuthFamily
  /\ \E email \in {E(1), Stranger, BadId}, passwordOk \in BOOLEAN,
       fault \in {"none", "storageErr", "storageThrow", "auditErr"} :
      LET form == [email |-> email, passwordOk |-> passwordOk]
      IN Invoke("signUpAction", NoUser, form, fault,
                signUpAction(db, form, fault))

\* The response has been delivered: the request and its context are gone.
EndRequest ==
  /\ call # Idle
  /\ call' = Idle
  /\ result' = Value(FALSE)
  /\ trace' = <<>>
  /\ UNCHANGED <<db, hostCache, active_workspace_id, hookVars, availVars>>

\* An availability check served outside the form's hook.
CheckSubdomainAvailability ==
  /\ Free /\ Unset /\ SiteFamily
  /\ \E sub \in Subdomains \cup {"ab"},
       fault \in {"none", "lookupErr", "lookupThrow"} :
      LET form == [subdomain |-> sub]
      IN /\ Serve("checkSubdomainAvailabilityAction", NoUser, form, fault,
                  Out(checkSubdomainAvailability(hostCache, db, sub, fault),
                      <<>>, db))
         /\ hostCache' = Stored(hostCache, db, sub, fault)
         /\ UNCHANGED active_workspace_id

\* revalidate: 3600 -- an entry of the cache expires.
EntryExpires ==
  /\ call = Idle /\ Unset
  /\ \E host \in DOMAIN hostCache :
       /\ hostCache[host].hit
       /\ hostCache' = [hostCache EXCEPT ![host] = NoEntry]
  /\ UNCHANGED <<db, call, result, trace, active_workspace_id, hookVars,
                 availVars>>

\* workspaces.actions.ts: setActiveWorkspaceAction: the cookie is set to
\* the argument, the dashboard layout is revalidated, the caller is
\* redirected.  The new value of the cookie is the third component.
setActiveWorkspaceAction(cookie, actor, workspaceId) ==
  <<Redirected("/dashboard"),
    Invalidate(Path("/dashboard")) \o Redirect("/dashboard"), workspaceId>>

\* The tables a membership is read from change; the others hold their
\* initial rows.
MembershipFamily ==
  /\ SitesQuiet /\ CampaignsQuiet /\ ProfilesQuiet /\ AuthQuiet

SetActiveWorkspace ==
  /\ Free /\ Uncached /\ MembershipFamily
  /\ \E actor \in Callers, workspaceId \in Workspaces \cup {BadId} :
      LET out == setActiveWorkspaceAction(active_workspace_id, actor,
                                          workspaceId)
      IN /\ Serve("setActiveWorkspaceAction", actor,
                  [workspaceId |-> workspaceId], "none",
                  Out(out[1], out[2], db))
         /\ active_workspace_id' = out[3]
         /\ UNCHANGED hostCache

Next ==
  \/ EndRequest
  \/ CallHasWorkspacePermission
  \/ CallRequireAppRole
  \/ CallRequireWorkspacePermission
  \/ CallRequireSitePermission
  \/ CreateSite
  \/ UpdateSiteCall
  \/ DeleteSiteCall
  \/ DeleteSiteAsAdmin
  \/ CreateCampaign
  \/ DeleteCampaignCall
  \/ UpdateCampaignContentCall
  \/ Impersonate
  \/ UpdateUserRole
  \/ SendWorkspaceInvitation
  \/ AcceptInvitation
  \/ CreateWorkspace
  \/ UpdateDashboardLayout
  \/ UpdatePassword
  \/ LogClientVisit
  \/ RequestPasswordReset
  \/ SignUpCall
  \/ CheckSubdomainAvailability
  \/ EntryExpires
  \/ SetActiveWorkspace

Spec == Init /\ [][Next]_vars

(***************************************************************************)
(* Properties.  They read the last invocation: call (what was invoked),    *)
(* result (what it returned), trace (what it did, in order) and db.        *)
(***************************************************************************)
MutationHandlers ==
  {"createSiteAction", "updateSiteAction", "deleteSiteAction",
   "deleteSiteAsAdminAction", "createCampaignAction", "deleteCampaignAction",
   "updateCampaignContentAction", "impersonateUserAction",
   "updateUserRoleAction", "sendWorkspaceInvitationAction",
   "acceptInvitationAction", "createWorkspaceAction",
   "updateDashboardLayoutAction", "updatePasswordAction",
   "logClientVisitAction"}

GuardedHandlers ==
  {"createSiteAction", "updateSiteAction", "deleteSiteAction",
   "createCampaignAction", "deleteCampaignAction",
   "updateCampaignContentAction", "sendWorkspaceInvitationAction",
   "impersonateUserAction", "deleteSiteAsAdminAction",
   "updateUserRoleAction"}

GuardCodes == {"SESSION_NOT_FOUND", "PERMISSION_DENIED", "NOT_FOUND"}

NoPermissionMessages ==
  {"No tienes permiso para crear sitios en este workspace.",
   "No tienes permiso para crear campanas en este sitio.",
   "No tienes permiso para eliminar esta campana."}

Events(tr, e) == {i \in DOMAIN tr : tr[i].e = e}
Happened(tr, e) == Events(tr, e) # {}
Precedes(tr, e, i) == \E j \in Events(tr, e) : j < i
Tables(d) == [d EXCEPT !.audit_logs = 0]

\* C1: when a user whose role in the site's workspace is "member" calls
\* deleteSiteAction, the result is a failure carrying a human-readable
\* "No tienes permiso..." message, the site row is not deleted and no audit
\* entry is written.
C1_MemberDeleteRefusedReadably ==
  [][(/\ call = Idle
      /\ call'.name = "deleteSiteAction"
      /\ call'.fault = "none"
      /\ \E s \in SiteRows(db, call'.args.siteId) :
           \E m \in MemberRows(db, call'.actor, s.workspace_id) :
             m.role = "member")
     => (/\ result'.kind = "failure"
         /\ result'.error \in NoPermissionMessages
         /\ db' = db
         /\ ~Happened(trace', "audit"))]_vars

\* C2: in every invocation of a guarded mutation handler the storage
\* mutation is issued only after the authorization of that invocation
\* succeeded, the audit-log write and every cache invalidation only after
\* the mutation succeeded; a failed authorization or a failed mutation is
\* followed by neither, and the store changes only this way.
C2_AuthorizeMutateThenAuditInvalidate ==
  [][(call = Idle /\ call'.name \in GuardedHandlers)
     => (/\ \A i \in Events(trace', "mutate") :
               Precedes(trace', "authOk", i)
         /\ Happened(trace', "authFail") => ~Happened(trace', "mutate")
         /\ \A i \in Events(trace', "audit") \cup Events(trace', "invalidate") :
               Precedes(trace', "mutateOk", i)
         /\ Happened(trace', "mutateFail")
              => /\ ~Happened(trace', "audit")
                 /\ ~Happened(trace', "invalidate")
                 /\ db' = db
         /\ Happened(trace', "authFail")
              => /\ ~Happened(trace', "audit")
                 /\ ~Happened(trace', "invalidate")
                 /\ db' = db
         /\ Tables(db') # Tables(db) => Happened(trace', "mutateOk")
         /\ db'.audit_logs # db.audit_logs => Happened(trace', "audit"))]_vars

C2_Witness ==
  /\ call.name = "deleteSiteAsAdminAction"
  /\ result.kind = "success"
  /\ Happened(trace, "authOk") /\ Happened(trace, "mutateOk")
  /\ Happened(trace, "audit") /\ Happened(trace, "invalidate")

\* C3: hasWorkspacePermission returns true exactly when the membership
\* lookup succeeds with a row whose role is in requiredRoles; it returns
\* false when there is no row, when the lookup fails with an error, and
\* when the role is not in requiredRoles (an empty requiredRoles included).
C3_TrueIffMemberWithRequiredRole ==
  call.name = "hasWorkspacePermission" =>
    LET rows == MemberRows(db, call.args.userId, call.args.workspaceId)
        granted == /\ call.fault = "none"
                   /\ \E m \in rows : m.role \in call.args.requiredRoles
    IN /\ (result = Value(TRUE)) <=> granted
       /\ (~granted /\ call.fault # "lookupThrow") => result = Value(FALSE)

C3_Witness ==
  /\ call.name = "hasWorkspacePermission"
  /\ call.args.requiredRoles = {"owner", "admin"}
  /\ result = Value(TRUE)

\* C4: whenever the user's membership role is not in requiredRoles, the
\* workspace guard (requireWorkspacePermission, and requireSitePermission
\* through the site's workspace) returns PERMISSION_DENIED and emits exactly
\* one warning log, which contains the actor id and the workspace id.
C4_DenialWarnsOnceWithIds ==
  (/\ call.name \in {"requireWorkspacePermission", "requireSitePermission"}
   /\ call.fault = "none"
   /\ call.actor \in Users)
  => LET ws == IF call.name = "requireWorkspacePermission"
                 THEN {call.args.workspaceId}
               ELSE {s.workspace_id : s \in SiteRows(db, call.args.siteId)}
     IN \A w \in ws : \A m \in MemberRows(db, call.actor, w) :
          m.role \notin call.args.requiredRoles
          => /\ result = Fail("PERMISSION_DENIED")
             /\ Cardinality(Events(trace, "warn")) = 1
             /\ \A i \in Events(trace, "warn") :
                  {call.actor, w} \subseteq trace[i].ids

\* C5: requireSitePermission called with an active session and a site id
\* for which the site lookup returns nothing returns NOT_FOUND, and
\* hasWorkspacePermission is never invoked during that call.
C5_MissingSiteNotFoundNoPermissionCheck ==
  (/\ call.name = "requireSitePermission"
   /\ call.actor \in Users
   /\ call.fault \notin {"sessionThrow", "lookupThrow"}
   /\ (SiteRows(db, call.args.siteId) = {} \/ call.fault = "lookupErr"))
  => /\ result = Fail("NOT_FOUND")
     /\ ~Happened(trace, "permCheck")

C5_Witness ==
  /\ call.name = "requireSitePermission"
  /\ call.actor \in Users
  /\ call.fault = "none"
  /\ SiteRows(db, call.args.siteId) = {}
  /\ result = Fail("NOT_FOUND")

\* C6: for every (user, workspace) pair with no membership row,
\* hasWorkspacePermission returns false and emits no error log; an error
\* log is emitted only when the lookup fails with a code other than
\* PGRST116 (not found).
C6_AbsenceIsNotLogged ==
  call.name = "hasWorkspacePermission" =>
    LET rows == MemberRows(db, call.args.userId, call.args.workspaceId)
    IN /\ (rows = {} /\ call.fault = "none")
            => (result = Value(FALSE) /\ ~Happened(trace, "errorLog"))
       /\ Happened(trace, "errorLog") => call.fault = "memberLookupErr"

C6_Witness ==
  /\ call.name = "hasWorkspacePermission"
  /\ call.fault = "none"
  /\ MemberRows(db, call.args.userId, call.args.workspaceId) = {}
  /\ result = Value(FALSE)
  /\ ~Happened(trace, "errorLog")

\* C7: createSiteAction called by an owner or admin of the workspace with a
\* subdomain that already exists returns the failure "Este subdominio ya
\* esta en uso.", which is none of the action's generic failure messages;
\* no audit log entry is written and the sites are unchanged.
CreateSiteGenericMessages ==
  {"No se pudo crear el sitio.", UnexpectedError,
   "Datos de formulario invalidos.",
   "No tienes permiso para crear sitios en este workspace."}

C7_DuplicateSubdomainSpecificError ==
  [][(/\ call = Idle
      /\ call'.name = "createSiteAction"
      /\ call'.fault \in {"none", "auditErr", "auditThrow"}
      /\ \E s \in db.sites : s.subdomain = call'.args.subdomain
      /\ \E m \in MemberRows(db, call'.actor, call'.args.workspaceId) :
           m.role \in {"owner", "admin"})
     => (/\ result' = Fail("Este subdominio ya esta en uso.")
         /\ result'.error \notin CreateSiteGenericMessages
         /\ ~Happened(trace', "audit")
         /\ db' = db)]_vars

C7_Witness ==
  /\ call.name = "createSiteAction"
  /\ call.fault = "none"
  /\ \E s \in db.sites : s.subdomain = call.args.subdomain
  /\ result = Fail("Este subdominio ya esta en uso.")

\* C8: every mutation handler invocation that returns a success result has
\* made exactly one audit-log write attempt during that invocation, and a
\* failed audit write leaves the success result as it is.
C8_SuccessHasOneAuditAttempt ==
  (call.name \in MutationHandlers /\ result.kind = "success")
  => Cardinality(Events(trace, "audit")) = 1

\* C9: no mutation handler propagates an exception to its caller: when a
\* step of the handler throws, the handler returns a failure with the
\* generic unexpected-error message.
C9_NoExceptionPropagates ==
  call.name \in MutationHandlers
  => /\ result.kind # "threw"
     /\ Happened(trace, "throw") => result = Fail(UnexpectedError)

\* C10: every result a mutation handler returns is a success payload or a
\* human-readable error string; SESSION_NOT_FOUND, PERMISSION_DENIED and
\* NOT_FOUND never are the error of a handler result.
C10_NoGuardCodeInResult ==
  call.name \in MutationHandlers => result.error \notin GuardCodes

\* The handlers that take a form payload, and whether the payload of the
\* last invocation fails the handler's schema.
FormMalformed ==
  CASE call.name = "createSiteAction" -> ~CreateSiteServerSchema(call.args).ok
    [] call.name = "updateSiteAction" -> ~UpdateSiteSchema(call.args).ok
    [] call.name = "deleteSiteAction" -> ~DeleteSiteSchema(call.args).ok
    [] call.name = "createCampaignAction" -> ~CreateCampaignSchema(call.args).ok
    [] call.name = "deleteCampaignAction" -> ~DeleteCampaignSchema(call.args).ok
    [] call.name = "sendWorkspaceInvitationAction"
         -> ~InvitationServerSchema(call.args).ok
    [] call.name = "createWorkspaceAction" -> ~CreateWorkspaceSchema(call.args).ok
    [] OTHER -> FALSE

InvalidDataMessages ==
  {"Datos de formulario invalidos.", "ID de sitio invalido.",
   "Datos invalidos.", "ID de campana invalido.",
   "Datos de invitacion invalidos.",
   "El nombre debe tener al menos 3 caracteres."}

SessionOrPermissionEvents ==
  {"auth.getUser", "profiles.select", "permCheck", "siteLookup",
   "campaignLookup", "authOk", "authFail"}

\* C11: in every mutation handler that takes a form payload, a malformed
\* payload yields the handler's invalid-data error, and no session lookup,
\* guard or permission query has been performed in that invocation.
C11_ValidationBeforeSession ==
  FormMalformed
  => /\ result.kind = "failure"
     /\ result.error \in InvalidDataMessages
     /\ \A i \in DOMAIN trace : trace[i].e \notin SessionOrPermissionEvents

\* The step of the mutation pipeline an event belongs to (0: none).
Step(e) ==
  CASE e = "validate" -> 1
    [] e = "authOk" -> 2
    [] e \in {"mutate", "mutateOk"} -> 3
    [] e = "audit" -> 4
    [] e = "invalidate" -> 5
    [] OTHER -> 0

\* C12: every successful mutation follows the order validate, authorize,
\* mutate, audit, invalidate cache, respond; in particular the audit-log
\* write attempt precedes every cache invalidation of the invocation.
C12_AuditBeforeInvalidate ==
  (call.name \in MutationHandlers /\ result.kind = "success")
  => \A i, j \in DOMAIN trace :
       (i < j /\ Step(trace[i].e) # 0 /\ Step(trace[j].e) # 0)
       => Step(trace[i].e) <= Step(trace[j].e)


(***************************************************************************)
(* The workspaces that own the site of the campaign a campaign handler is  *)
(* asked to act on, and whether the caller has a member row in one.        *)
(***************************************************************************)
CampaignHandlers ==
  {"createCampaignAction", "deleteCampaignAction",
   "updateCampaignContentAction"}

CampaignSites(d, c) ==
  IF c.name = "createCampaignAction"
    THEN SiteRows(d, c.args.siteId)
    ELSE {s \in d.sites :
            \E k \in CampaignRows(d, c.args.campaignId) : k.site_id = s.id}

HoldsMembership(d, c) ==
  \E s \in CampaignSites(d, c) : MemberRows(d, c.actor, s.workspace_id) # {}

\* C13: a campaign handler creates, deletes or changes a campaign row only
\* for a caller with a member row in the workspace owning the campaign's
\* site; a caller without one changes nothing and no audit entry is
\* attempted.
C13_CampaignWritesNeedMembership ==
  [][(call = Idle /\ call'.name \in CampaignHandlers)
     => /\ db'.campaigns # db.campaigns => HoldsMembership(db, call')
        /\ ~HoldsMembership(db, call')
             => db' = db /\ ~Happened(trace', "audit")]_vars

C13_Witness ==
  /\ call.name = "updateCampaignContentAction"
  /\ call.fault = "none"
  /\ call.actor \in Users
  /\ CampaignRows(db, call.args.campaignId) # {}
  /\ ~HoldsMembership(db, call)
  /\ result.kind = "failure"
  /\ ~Happened(trace, "audit")


Owners(d, w) ==
  {m \in d.workspace_members : m.workspace_id = w /\ m.role = "owner"}

\* C14: in every reachable state every workspace has exactly one member
\* whose role is "owner".
C14_ExactlyOneOwner ==
  \A w \in db.workspaces : Cardinality(Owners(db, w)) = 1


\* C15: within one request the session lookup (auth.getUser and the
\* profile-role query) is executed at most once.
C15_SessionLookupAtMostOnce ==
  /\ Cardinality(Events(trace, "auth.getUser")) <= 1
  /\ Cardinality(Events(trace, "profiles.select")) <= 1


(***************************************************************************)
(* hooks/use-optimistic-resource-management.ts.  items is the list the     *)
(* hook shows, serverItems the list the server holds.  ops records every   *)
(* handleCreate / handleDelete call: the id it is about, the snapshot      *)
(* previousItems its closure captured, and how far it got: "sent" (the     *)
(* action is awaited), "answered" (the server has run it; outcome is what  *)
(* the await yields) and "settled" (the code after the await has run, or   *)
(* the await rejected and nothing runs).                                   *)
(***************************************************************************)
MaxOps == 3

Optimistic(n) == <<"optimistic", n>>
Outcomes == {"success", "failure", "rejected"}

Filter(seq, id) == SelectSeq(seq, LAMBDA x : x # id)
Elems(seq) == {seq[i] : i \in DOMAIN seq}

Op(kind, id, previousItems) ==
  [kind |-> kind, id |-> id, previousItems |-> previousItems,
   stage |-> "sent", outcome |-> "none"]

\* handleCreate: the provisional item gets the id optimistic-<Date.now()>.
handleCreate ==
  /\ Len(ops) < MaxOps
  /\ LET phantomItem == Optimistic(Len(ops) + 1)
         previousItems == items
     IN /\ items' = Append(items, phantomItem)
        /\ mutatingId' = phantomItem
        /\ ops' = Append(ops, Op("create", phantomItem, previousItems))
  /\ UNCHANGED <<initialItems, serverItems, refreshPending, storeVars,
               availVars>>

\* handleDelete: returns at once when the form carries no siteId.
handleDelete ==
  /\ Len(ops) < MaxOps
  /\ \E idToDelete \in Elems(items) \cup {NoId} :
       IF idToDelete = NoId
         THEN UNCHANGED <<items, mutatingId, ops>>
         ELSE LET previousItems == items
              IN /\ items' = Filter(items, idToDelete)
                 /\ mutatingId' = idToDelete
                 /\ ops' = Append(ops,
                             Op("delete", idToDelete, previousItems))
  /\ UNCHANGED <<initialItems, serverItems, refreshPending, storeVars,
               availVars>>

\* The awaited createAction / deleteAction runs on the server.  A create
\* that succeeds adds a row with a fresh id; a delete succeeds only on a
\* row the server has; either may fail, and the call itself may reject.
ServerRuns ==
  \E n \in DOMAIN ops, outcome \in Outcomes :
    /\ ops[n].stage = "sent"
    /\ (ops[n].kind = "delete" /\ outcome = "success")
         => ops[n].id \in Elems(serverItems)
    /\ ops' = [ops EXCEPT ![n].stage = "answered", ![n].outcome = outcome]
    /\ serverItems' =
         IF outcome # "success" THEN serverItems
         ELSE IF ops[n].kind = "create" THEN Append(serverItems, R(n + 1))
         ELSE Filter(serverItems, ops[n].id)
    /\ UNCHANGED <<items, mutatingId, initialItems, refreshPending,
                   storeVars, availVars>>

\* What the failure branch puts back: setItems(previousItems).
Rollback_dropsOwnChange(current, op) ==
  IF op.kind = "create" THEN Filter(current, op.id) ELSE current

Rollback(current, op) == op.previousItems

\* The code after the await: on success router.refresh(), on failure the
\* rollback, then setMutatingId(null).  A rejected await runs none of it.
Settle ==
  \E n \in DOMAIN ops :
    /\ ops[n].stage = "answered"
    /\ ops' = [ops EXCEPT ![n].stage = "settled"]
    /\ refreshPending' = (refreshPending \/ ops[n].outcome = "success")
    /\ items' = IF ops[n].outcome = "failure"
                  THEN Rollback(items, ops[n]) ELSE items
    /\ mutatingId' = IF ops[n].outcome = "rejected" THEN mutatingId ELSE NoId
    /\ UNCHANGED <<initialItems, serverItems, storeVars, availVars>>

\* router.refresh() re-renders with the server's list as initialItems, and
\* the effect on [initialItems] copies it into items.
ApplyRefresh ==
  /\ refreshPending
  /\ refreshPending' = FALSE
  /\ initialItems' = serverItems
  /\ items' = initialItems'
  /\ UNCHANGED <<mutatingId, serverItems, ops, storeVars, availVars>>

HookNext ==
  \/ handleCreate
  \/ handleDelete
  \/ ServerRuns
  \/ Settle
  \/ ApplyRefresh

HookSpec == Init /\ [][HookNext]_vars

Settling(n) ==
  /\ n \in DOMAIN ops
  /\ ops[n].stage = "answered"
  /\ ops'[n].stage = "settled"

\* C16: when a handleCreate whose createAction returned a failure result
\* completes, items is the list items held immediately before that
\* handleCreate call.
C16_FailedCreateRestoresSnapshot ==
  [][\A n \in DOMAIN ops :
       (Settling(n) /\ ops[n].kind = "create" /\ ops[n].outcome = "failure")
       => /\ items' = ops[n].previousItems
          /\ ops[n].id \notin Elems(items')]_vars

C16_Witness ==
  \E n \in DOMAIN ops :
    /\ ops[n].kind = "create"
    /\ ops[n].stage = "settled"
    /\ ops[n].outcome = "failure"
    /\ items = ops[n].previousItems
    /\ \E m \in DOMAIN ops : m # n /\ ops[m].stage # "settled"

SucceededDeletes ==
  {ops[n].id : n \in {m \in DOMAIN ops :
                        /\ ops[m].kind = "delete"
                        /\ ops[m].stage = "settled"
                        /\ ops[m].outcome = "success"}}

\* C17: an id whose handleDelete completed with success is absent from
\* items in every later state; stated here for the states in which the
\* refresh that follows the delete has been applied, where even the
\* server's list no longer holds the id.
C17_DeletedIdStaysAbsent ==
  ~refreshPending => \A id \in SucceededDeletes : id \notin Elems(items)

\* C18: once no mutation is in flight and every requested refresh has
\* been applied, items is the server's list; stated here for the runs in
\* which every awaited action returned a result (none rejected).
C18_QuiescentItemsEqualServer ==
  (/\ \A n \in DOMAIN ops :
        ops[n].stage = "settled" /\ ops[n].outcome # "rejected"
   /\ ~refreshPending)
  => items = serverItems


(***************************************************************************)
(* hooks/use-subdomain-availability.ts with utils.ts: debounce and         *)
(* builder.actions.ts: checkSubdomainAvailabilityAction.  Time advances in *)
(* ticks; timers holds the timeouts that are set, each with the argument   *)
(* of its call and the ticks left before it fires.  checks holds the       *)
(* subdomains whose remote check is awaited.                               *)
(***************************************************************************)
MaxChanges == 3

\* waitFor, 500 ms, in ticks.
WaitTicks == 2

FieldValues == {"acme", "nova", "ab"}

\* A reducer for which every answered check is good news.
availabilityReducer_ignoresAnswer(state, action) ==
  CASE action.type = "CHECK_START" -> "checking"
    [] action.type = "CHECK_SUCCESS" -> "available"
    [] action.type = "CHECK_ERROR" -> "unavailable"
    [] action.type = "RESET" -> "idle"
    [] OTHER -> state

availabilityReducer(state, action) ==
  CASE action.type = "CHECK_START" -> "checking"
    [] action.type = "CHECK_SUCCESS" ->
         IF action.isAvailable THEN "available" ELSE "unavailable"
    [] action.type = "CHECK_ERROR" -> "unavailable"
    [] action.type = "RESET" -> "idle"
    [] OTHER -> state

Dispatch(type) == [type |-> type, isAvailable |-> FALSE]

\* dispatch(action): the reducer's result becomes the status; dispatched
\* keeps the action and the status it was applied to.
Reduce(action) ==
  /\ status' = availabilityReducer(status, action)
  /\ dispatched' = [from |-> status, action |-> action]

\* A debounce that leaves the timeout of the previous call set.
debounce_keepsEarlier(pending, args) ==
  Append(pending, [args |-> args, left |-> WaitTicks])

\* debounce: a call clears the timeout of the previous call and sets one
\* that runs func(args) after waitFor.
debounce(pending, args) == <<[args |-> args, left |-> WaitTicks]>>

Eligible(value, dirty, errors) == dirty /\ ~errors /\ ~TooShort(value)

\* A render with new inputs runs the effect: RESET when the field is
\* untouched, in error or too short, else debouncedCheck(subdomainValue).
\* run and calls restart when no timeout is set, that is when the change
\* does not come within waitFor of the previous scheduled one.
ChangeInput ==
  /\ changes < MaxChanges
  /\ \E value \in FieldValues, dirty \in BOOLEAN, errors \in BOOLEAN :
       /\ <<value, dirty, errors>> # <<subdomainValue, isDirty, hasErrors>>
       /\ subdomainValue' = value
       /\ isDirty' = dirty
       /\ hasErrors' = errors
       /\ IF Eligible(value, dirty, errors)
            THEN /\ timers' = debounce(timers, value)
                 /\ run' = IF timers = <<>> THEN <<value>>
                                             ELSE Append(run, value)
                 /\ calls' = IF timers = <<>> THEN <<>> ELSE calls
                 /\ UNCHANGED <<status, dispatched>>
            ELSE /\ Reduce(Dispatch("RESET"))
                 /\ UNCHANGED <<timers, run, calls>>
  /\ changes' = changes + 1
  /\ UNCHANGED <<checks, answer, resolved, storeVars, hookVars>>

\* One tick passes; a timeout that is due fires before time goes on.
Tick ==
  /\ timers # <<>>
  /\ \A i \in DOMAIN timers : timers[i].left > 0
  /\ timers' = [i \in DOMAIN timers |->
                  [timers[i] EXCEPT !.left = timers[i].left - 1]]
  /\ UNCHANGED <<subdomainValue, isDirty, hasErrors, status, checks, answer,
                 run, calls, changes, dispatched, resolved, storeVars,
                 hookVars>>

Without(seq, i) == [j \in 1..(Len(seq) - 1) |-> IF j < i THEN seq[j]
                                                          ELSE seq[j + 1]]

\* A timeout fires: CHECK_START is dispatched and the remote check of its
\* argument is awaited.  n orders the checks by the input change they
\* follow.
TimerFires ==
  /\ \E i \in DOMAIN timers :
       /\ timers[i].left = 0
       /\ timers' = Without(timers, i)
       /\ Reduce(Dispatch("CHECK_START"))
       /\ checks' = Append(checks, [subdomain |-> timers[i].args,
                                    n |-> changes])
       /\ calls' = Append(calls, timers[i].args)
  /\ UNCHANGED <<subdomainValue, isDirty, hasErrors, answer, run, changes,
                 resolved, storeVars, hookVars>>

\* The awaited check ends: CHECK_SUCCESS or CHECK_ERROR on a result; on a
\* rejected call the code after the await does not run.  resolved is the
\* latest check whose answer has been dispatched.
CheckEnds ==
  /\ \E i \in DOMAIN checks, fault \in CheckFaults :
       LET res == checkSubdomainAvailabilityAction(db, checks[i].subdomain,
                                                   fault)
       IN /\ checks' = Without(checks, i)
          /\ answer' = res.kind
          /\ resolved' = IF res.kind # "threw" /\ checks[i].n > resolved
                           THEN checks[i].n ELSE resolved
          /\ CASE res.kind = "success" ->
                      Reduce([type |-> "CHECK_SUCCESS",
                              isAvailable |-> res.data[1]])
                 [] res.kind = "failure" -> Reduce(Dispatch("CHECK_ERROR"))
                 [] OTHER -> UNCHANGED <<status, dispatched>>
  /\ UNCHANGED <<subdomainValue, isDirty, hasErrors, timers, run, calls,
                 changes, storeVars, hookVars>>

AvailNext ==
  \/ ChangeInput
  \/ Tick
  \/ TimerFires
  \/ CheckEnds

AvailSpec == Init /\ [][AvailNext]_vars

\* C19: in a burst of eligible changes, each within the debounce delay of
\* the previous one, no check is invoked while a timeout is still set, and
\* once it has fired the check was invoked exactly once, with the last
\* value of the burst.
C19_OnlyLastValueIsChecked ==
  /\ timers # <<>> => calls = <<>>
  /\ (timers = <<>> /\ run # <<>>) => calls = <<run[Len(run)]>>

C19_Witness ==
  /\ timers = <<>>
  /\ Len(run) > 1
  /\ run[1] # run[Len(run)]
  /\ calls = <<run[Len(run)]>>

\* C20: when a check that has started (status "checking") fails, by a
\* failure result or by the call itself failing, the status becomes
\* "unavailable".
C20_FailedCheckReportsUnavailable ==
  [][(/\ Len(checks') < Len(checks)
      /\ status = "checking"
      /\ answer' \in {"failure", "threw"})
     => status' = "unavailable"]_vars


\* C21: a remote availability check is started only while the field is
\* dirty, has no local validation error and holds at least 3 characters.
C21_CheckStartsOnlyWhileEligible ==
  [][Len(checks') > Len(checks)
     => Eligible(subdomainValue, isDirty, hasErrors)]_vars


\* C22: the status is always what the machine idle -> checking ->
\* (available | unavailable) gives for the last action dispatched, whatever
\* status it was dispatched in: CHECK_START gives "checking", CHECK_SUCCESS
\* "available" or "unavailable" by isAvailable, CHECK_ERROR "unavailable",
\* RESET "idle"; and "available" only follows a CHECK_SUCCESS with
\* isAvailable true.
C22_ReducerRealisesMachine ==
  /\ dispatched.action.type = "CHECK_START" => status = "checking"
  /\ dispatched.action.type = "CHECK_SUCCESS"
       => status = (IF dispatched.action.isAvailable THEN "available"
                                                      ELSE "unavailable")
  /\ dispatched.action.type = "CHECK_ERROR" => status = "unavailable"
  /\ dispatched.action.type = "RESET" => status = "idle"
  /\ status = "available"
       => dispatched.action = [type |-> "CHECK_SUCCESS", isAvailable |-> TRUE]

C22_Witness ==
  /\ dispatched.action = [type |-> "CHECK_SUCCESS", isAvailable |-> FALSE]
  /\ dispatched.from = "available"
  /\ status = "unavailable"


\* What the store answers to the write of a handler whose write can hit a
\* unique constraint, and the messages that name the conflict.
StoreAnswer(d, c) ==
  CASE c.name = "createSiteAction" ->
         InsertSite(d, c.args.subdomain, c.args.workspaceId, c.fault)
    [] c.name = "updateSiteAction" ->
         UpdateSite(d, c.args.siteId, c.args.subdomain, c.fault)
    [] c.name = "sendWorkspaceInvitationAction" ->
         createInvitation(d, InvitationServerSchema(c.args), c.fault)

ConflictMessages ==
  {"Este subdominio ya esta en uso.",
   "Este usuario ya ha sido invitado o ya es miembro."}

\* C23: when the store rejects the write of createSiteAction,
\* updateSiteAction or sendWorkspaceInvitationAction with a uniqueness
\* violation (23505), the handler returns a conflict-specific message.
C23_UniqueViolationHasOwnMessage ==
  [][(/\ call = Idle
      /\ call'.name \in {"createSiteAction", "updateSiteAction",
                         "sendWorkspaceInvitationAction"}
      /\ Happened(trace', "mutateFail")
      /\ StoreAnswer(db, call').error = "23505")
     => (result'.kind = "failure" /\ result'.error \in ConflictMessages)]_vars


\* The same store without the campaign a call refers to, and what the
\* handler returns when run on it instead.
WithoutCampaign(d, campaignId) ==
  [d EXCEPT !.campaigns = @ \ CampaignRows(d, campaignId)]

ResultIfAbsent(d, c) ==
  IF c.name = "deleteCampaignAction"
    THEN deleteCampaignAction(WithoutCampaign(d, c.args.campaignId),
                              c.actor, c.args, c.fault).res
    ELSE updateCampaignContentAction(
           WithoutCampaign(d, c.args.campaignId), c.actor,
           c.args.campaignId, c.args.content, c.fault).res

\* C24: for an authenticated user without a member row in the workspace of
\* a campaign's site, deleteCampaignAction and updateCampaignContentAction
\* return on an existing campaign what they return when the campaign does
\* not exist.
C24_ExistenceNotRevealed ==
  [][(/\ call = Idle
      /\ call'.name \in {"deleteCampaignAction",
                         "updateCampaignContentAction"}
      /\ call'.actor \in Users
      /\ call'.fault = "none"
      /\ CampaignRows(db, call'.args.campaignId) # {}
      /\ ~HoldsMembership(db, call'))
     => result' = ResultIfAbsent(db, call')]_vars


AdminHandlers ==
  {"impersonateUserAction", "updateUserRoleAction",
   "deleteSiteAsAdminAction"}

RequiredAppRoles(name) ==
  IF name = "deleteSiteAsAdminAction" THEN {"admin", "developer"}
                                      ELSE {"developer"}

HoldsAppRole(d, c) ==
  \E p \in ProfileRows(d, c.actor) : p.app_role \in RequiredAppRoles(c.name)

PrivilegedEvents ==
  {"userLookup", "mutate", "mutateOk", "mutateFail", "audit", "invalidate"}

\* C26: an admin action called without a session, or by a user whose app
\* role is not the one the action requires, performs no store write,
\* generates no sign-in link, invalidates no cache and attempts no audit
\* entry.
C26_AdminActionsNeedAppRole ==
  [][(/\ call = Idle
      /\ call'.name \in AdminHandlers
      /\ ~HoldsAppRole(db, call'))
     => (/\ db' = db
         /\ result'.kind # "success"
         /\ \A i \in DOMAIN trace' : trace'[i].e \notin PrivilegedEvents)]_vars

C26_Witness ==
  /\ call.name = "updateUserRoleAction"
  /\ call.actor \in Users
  /\ call.fault = "none"
  /\ ~HoldsAppRole(db, call)
  /\ result = Fail("PERMISSION_DENIED")


AuditEvents(tr) == SelectSeq(tr, LAMBDA x : x.e = "audit")

\* The run of the same request on a store in which the email has no
\* account, so that the recovery link cannot be generated.
ResetIfNoAccount(d, c) ==
  requestPasswordResetAction(
    [d EXCEPT !.auth_users = @ \ {c.args.email}], c.args, c.fault)

\* C25: for a valid email, requestPasswordResetAction ends in the redirect
\* to the check-email notice and attempts the same password_reset_request
\* audit entry whether or not the email belongs to an account.
C25_ResetOutcomeHidesAccount ==
  [][(/\ call = Idle
      /\ call'.name = "requestPasswordResetAction"
      /\ IsEmail(call'.args.email)
      /\ call'.fault # "storageThrow")
     => (/\ result' = Redirected("/auth-notice?message=check-email-for-reset")
         /\ result' = ResetIfNoAccount(db, call').res
         /\ AuditEvents(trace') = AuditEvents(ResetIfNoAccount(db, call').tr)
         /\ AuditEvents(trace')
              = <<Ev("audit", {Action("password_reset_request"),
                               call'.args.email})>>
         /\ db' = [db EXCEPT !.audit_logs =
                     ResetIfNoAccount(db, call').db.audit_logs])]_vars

C25_Witness ==
  /\ call.name = "requestPasswordResetAction"
  /\ call.fault = "none"
  /\ call.args.email \in db.auth_users
  /\ Happened(trace, "emailSent")
  /\ result.kind = "redirect"

\* C27: a registration with a valid payload that the backend accepts writes
\* the user_signup_initiated audit entry and ends in the redirect to the
\* check-email notice; it returns no failure result.
C27_SignUpEndsInRedirect ==
  (/\ call.name = "signUpAction"
   /\ Happened(trace, "mutateOk"))
  => (/\ Happened(trace, "audit")
      /\ result.kind = "redirect")


\* C28: the answer of a check that is older than a check already answered
\* never overwrites the status the newer answer gave.
C28_LateAnswerDoesNotOverwrite ==
  [][\A i \in DOMAIN checks :
       (checks' = Without(checks, i) /\ checks[i].n < resolved)
       => status' = status]_vars


\* C29: checkSubdomainAvailabilityAction never answers isAvailable = true
\* for a subdomain that a site of the store has.
C29_AvailableMeansNoSite ==
  (/\ call.name = "checkSubdomainAvailabilityAction"
   /\ result.kind = "success"
   /\ result.data[1])
  => \A x \in db.sites : x.subdomain # call.args.subdomain

\* C29, for the checks that meet no store fault themselves: such a check
\* never answers isAvailable = true for a subdomain a site has.
C29_AvailableMeansNoSiteWithoutFault ==
  (call.name = "checkSubdomainAvailabilityAction" /\ call.fault = "none")
  => C29_AvailableMeansNoSite


\* C30: the active_workspace_id cookie changes only in a call of
\* setActiveWorkspaceAction by an authenticated caller, and only to a
\* workspace in which that caller holds a membership.
C30_CookieOnlyForMember ==
  [][active_workspace_id' # active_workspace_id
       => /\ call'.name = "setActiveWorkspaceAction"
          /\ call'.actor # NoUser
          /\ MemberRows(db, call'.actor, active_workspace_id') # {}]_vars

====
